---- MODULE Spec2Model ----
(***************************************************************************)
(* A model of the OAuth 2.1 authorization server of mcp-proxy              *)
(* (src/oauth.go) and of the HTTP middleware that guards the proxied       *)
(* routes (src/http.go, src/config.go).                                    *)
(*                                                                         *)
(* Every handler runs on its own goroutine.  A handler is cut into steps   *)
(* at the boundaries of its critical sections on OAuthServer.mutex: one    *)
(* step is one critical section together with the goroutine-local code     *)
(* next to it, so the interleavings of the model are the interleavings     *)
(* the lock allows.  Time is counted in ticks of ten minutes.              *)
(***************************************************************************)
EXTENDS Integers, Sequences, FiniteSets, Bags, TLC

(***************************************************************************)
(* Bounds of the model.                                                    *)
(***************************************************************************)
\* how many clients, authorization codes and token pairs one run creates in
\* all, the client of the persistence file included
MaxObjects == 4
\* the last tick of the clock
MaxTime == 2
\* how many handler goroutines run at the same time
MaxProcs == 2
\* the calls of a rotator
MaxCalls == 6

(***************************************************************************)
(* Program constants and configuration.                                    *)
(***************************************************************************)
\* time.Now().Add(10 * time.Minute): one tick
CodeTTL == 1
\* tokenExpirationMinutes = 10: one tick
tokenExpiration == 1

\* accessConfig.Users
Users == [alice |-> "pwA", bob |-> "pwB"]

\* the callback allowlist of handleClientRegistration
allowedCallbackURLs ==
    <<"https://claude.ai/api/mcp/auth_callback", "https://claude.com/api/mcp/auth_callback">>

(***************************************************************************)
(* Values a request can carry.                                             *)
(***************************************************************************)
VerifierInputs == {"", "v1", "v2"}
ChallengeInputs == {"", "h1"}
PasswordInputs == {"pwA", "pwB"}
ContentTypes == {"application/json", "application/x-www-form-urlencoded"}
ResourceInputs == {"resA"}
ScopeInputs == {"mcp"}
IPInputs == {"10.0.0.1", "203.0.113.9"}
\* a request that carries none of the client address headers
Direct(remoteAddr) ==
    [h \in {"CF-Connecting-IP", "True-Client-IP", "X-Real-IP", "X-Forwarded-For",
            "X-Cluster-Client-IP", "X-Forwarded", "Forwarded", "RemoteAddr"} |->
        IF h = "RemoteAddr" THEN remoteAddr ELSE ""]
\* direct requests, and requests through a proxy at 10.0.0.1 that names a client
\* address in one or two headers
AddressInputs ==
    {Direct(ip) : ip \in IPInputs}
    \cup {[Direct("10.0.0.1") EXCEPT !["X-Forwarded-For"] = ip] : ip \in IPInputs \cup {"junk"}}
    \cup {[Direct("10.0.0.1") EXCEPT !["CF-Connecting-IP"] = cf, !["X-Real-IP"] = ip] :
             cf \in {"junk", "203.0.113.9"}, ip \in IPInputs}
RedirectListInputs ==
    {<<>>, <<"https://claude.ai/api/mcp/auth_callback">>,
     <<"https://claude.ai/api/mcp/auth_callback", "https://evil.example/callback">>}

\* the allowlist the configuration gives accessConfig.AllowedIPs
AllowedIPs == <<"10.0.0.1">>

\* config.McpProxy.Type
ProxyType == "streamable-http"

\* a nil *UserFilterConfig
NoFilter == [nil |-> TRUE, Mode |-> "", List |-> <<>>]

\* config.McpServers: the options of the proxied servers
McpServers ==
    [open |-> [AuthTokens |-> <<"static1">>, UserFilter |-> NoFilter, LogEnabled |-> TRUE],
     restricted |-> [AuthTokens |-> <<>>, LogEnabled |-> FALSE,
                     UserFilter |-> [nil |-> FALSE, Mode |-> "allow", List |-> <<"bob">>]]]

Range(f) == {f[i] : i \in DOMAIN f}

\* sha256 followed by unpadded base64url, on the verifiers of the model:
\* an injective map from verifiers to challenges
S256(verifier) ==
    CASE verifier = "v1" -> "h1"
      [] verifier = "v2" -> "h2"
      [] OTHER -> "h0"

\* generateRandomString: the n-th string generated at a call site (the client
\* identifier, the client secret, the code, the access token, the refresh
\* token); no two generated strings are equal
generateRandomString(site, n) == site \o ToString(n)

VARIABLES
    clients,        \* OAuthServer.clients: clientID -> OAuthClient
    authCodes,      \* OAuthServer.authCodes: code -> AuthorizationCode
    accessTokens,   \* OAuthServer.accessTokens: token -> AccessToken
    file,           \* the content of persistenceFile
    now,            \* time.Now()
    procs,          \* the running handler goroutines: a bag of their local states
    oauth2Enabled,  \* config.McpProxy.Options.OAuth2.Enabled
    accessAllowedIPs, \* accessConfig.AllowedIPs
    served,         \* what the route handler did with the request it just served
    answer,         \* what the token endpoint answered in the step just taken
    issued,         \* history: code -> the login that issued it
    minted,         \* history: token -> the grant that minted it
    consumed,       \* history: refresh tokens a refresh request has removed
    pkceFailed,     \* history: codes whose exchange failed PKCE verification
    loaded,         \* history: the last loadClients, its file, instant and result
    mutex,          \* OAuthServer.mutex, a sync.RWMutex
    rotator,        \* the TokenRotator: rotatorState, attempts and statuses
    rotation,       \* history: the calls of the rotator and what the last one returned
    chain,          \* a chained handler, the request it serves and the calls made so far
    allowed,        \* the last call of UserFilterConfig.IsUserAllowed and its result
    templates       \* the template directory, OAuthServer.templates and the last page

vars == <<clients, authCodes, accessTokens, file, now, procs, oauth2Enabled, accessAllowedIPs,
          served, answer, issued, minted, consumed, pkceFailed, loaded, mutex, rotator,
          rotation, chain, allowed, templates>>

\* the state the handlers' atomic steps leave alone: each of these steps is a
\* critical section, entered and left with the lock free
rest == <<mutex, rotator, rotation, chain, allowed, templates>>

\* the state of the OAuth server
oauth == <<clients, authCodes, accessTokens, file, now, procs, oauth2Enabled, accessAllowedIPs,
           served, answer, issued, minted, consumed, pkceFailed, loaded, mutex>>

history == <<issued, minted, consumed, pkceFailed, loaded>>

Empty == [x \in {} |-> x]

NoAuth == [Code |-> "", ClientID |-> "", RedirectURI |-> "", Scope |-> "",
           CodeChallenge |-> "", ExpiresAt |-> 0, Resource |-> ""]

\* Username is read by the auth middleware; the AccessToken struct does not
\* declare it and no handler stores one, so it holds the zero value
NoToken == [Token |-> "", RefreshToken |-> "", ClientID |-> "", Scope |-> "",
            Resource |-> "", ExpiresAt |-> 0, Username |-> ""]

\* the local variables of a token request, and the tokenString captured by
\* the cleanup goroutine of ValidateToken
NoRequest == [code |-> "", redirectURI |-> "", clientID |-> "", codeVerifier |-> "",
              resource |-> "", refreshToken |-> "", tokenString |-> "",
              clientSecret |-> ""]

NoSnapshot == [Clients |-> Empty, AccessTokens |-> Empty]

\* the zero value of the RWMutex: w is the writers' mutex, held from a
\* writer's Lock to its Unlock; readers counts the holders of the shared lock
Unlocked == [w |-> FALSE, readers |-> 0]

(***************************************************************************)
(* The token rotators.  Go's indices start at 0, a sequence's at 1: the    *)
(* token and the failure count of index i are tokens[i + 1], fails[i + 1]. *)
(***************************************************************************)
\* no handler has been chained: middlewares are the arguments of
\* chainMiddleware, handler is the chained handler, the sequence of its
\* middlewares from the outermost inwards; phase tells whether the request is
\* on its way in ("before"), on its way out ("after") or answered ("done"),
\* depth how many middlewares it is inside of, callOrder what has run
NoChain == [middlewares |-> <<>>, handler |-> <<>>, header |-> <<>>, phase |-> "",
            depth |-> 0, callOrder |-> <<>>, status |-> 0]

\* no call of IsUserAllowed
NoCheck == [ufc |-> NoFilter, username |-> "", result |-> TRUE, called |-> FALSE]

\* dir is the template directory: "absent", "broken" (a file that does not
\* parse) or the version of the files in it; parsed is what OAuthServer.templates
\* was parsed from, "builtin" or a version; page, from and status are the
\* template the last page request named, what it was rendered from and the
\* answer, and seen is the directory as it was at that request
NoTemplates == [dir |-> "absent", parsed |-> "builtin", page |-> "", from |-> "", status |-> 0,
                seen |-> ""]

\* NewOAuthServer: external templates when the directory exists and its
\* files parse, the built-in ones otherwise
LoadTemplates(dir) == IF dir \in {"absent", "broken"} THEN "builtin" ELSE dir

\* no rotator has been made
NoRotator == [mode |-> "", tokens |-> <<>>, idx |-> 0, fails |-> <<>>, attempts |-> 0,
              statuses |-> <<>>]

\* what a call returns; Attempts and Statuses are those of a TokenExhaustedError
NoResult == [token |-> "", idx |-> -1, err |-> "", Attempts |-> 0, Statuses |-> <<>>]

\* no call yet.  calls counts the calls, nexts the Next calls, granted those that returned a
\* token, returned them by index; recorded lists the statuses of the Fail calls
\* with an index in range; last is the last call and out what it returned;
\* lastNext is what the last Next returned, failed and succeeded tell whether a
\* Fail or a Success with an index in range came after it, and failedCurrent is
\* the index of the last such Fail when it was the current index; after is
\* what failedCurrent was at the last Next that followed such a Fail, and
\* repeated tells whether the last Next followed a Next with no Fail between
NoRotation == [calls |-> 0, nexts |-> 0, granted |-> 0, returned |-> <<>>, recorded |-> <<>>,
               last |-> "", arg |-> -1, out |-> NoResult, lastNext |-> NoResult,
               failed |-> FALSE, succeeded |-> FALSE, failedCurrent |-> -1, after |-> -1,
               repeated |-> FALSE]

\* TokenExhaustedError.Unwrap
Unwrap(err) == IF err = "TokenExhaustedError" THEN "ErrAllTokensFailed" ELSE ""

\* NewRoundRobinRotator
NewRoundRobinRotator(tokens) ==
    [NoRotator EXCEPT !.mode = "round-robin", !.tokens = tokens,
                      !.fails = [i \in 1..Len(tokens) |-> 0]]

\* NewOnFirstFailedRotator
NewOnFirstFailedRotator(tokens) ==
    [NoRotator EXCEPT !.mode = "on-first-failed", !.tokens = tokens,
                      !.fails = [i \in 1..Len(tokens) |-> 0]]

\* NewTokenRotator: the rotator, or the error
NewTokenRotator(mode, tokens) ==
    IF Len(tokens) = 0 THEN [rotator |-> NoRotator, err |-> "ErrNoTokens"]
    ELSE IF mode = "round-robin" THEN [rotator |-> NewRoundRobinRotator(tokens), err |-> ""]
    ELSE IF mode = "on-first-failed"
         THEN [rotator |-> NewOnFirstFailedRotator(tokens), err |-> ""]
    ELSE [rotator |-> NoRotator, err |-> "ErrInvalidRotationMode"]

\* roundRobinRotator.Next: the rotator after the call and what the call returns
roundRobinRotator_Next(r) ==
    IF Len(r.tokens) = 0
    THEN [r |-> r, out |-> [NoResult EXCEPT !.err = "ErrNoTokens"]]
    ELSE [r |-> [r EXCEPT !.idx = (r.idx + 1) % Len(r.tokens)],
          out |-> [NoResult EXCEPT !.token = r.tokens[r.idx + 1], !.idx = r.idx]]

\* an error that counts the call that returns it among the attempts
ExhaustedCountsCall(r) ==
    [NoResult EXCEPT !.err = "TokenExhaustedError", !.Attempts = r.attempts + 1,
                     !.Statuses = r.statuses]

\* the error of a rotator whose tokens have all failed
Exhausted(r) ==
    [NoResult EXCEPT !.err = "TokenExhaustedError", !.Attempts = r.attempts,
                     !.Statuses = r.statuses]

\* a loop that returns the current token whether or not it has failed
FindAny(r, startIdx) ==
    [r |-> [r EXCEPT !.attempts = r.attempts + 1],
     out |-> [NoResult EXCEPT !.token = r.tokens[r.idx + 1], !.idx = r.idx]]

\* the loop of onFirstFailedRotator.Next from index r.idx, begun at startIdx
RECURSIVE Find(_, _)
Find(r, startIdx) ==
    IF r.fails[r.idx + 1] = 0
    THEN [r |-> [r EXCEPT !.attempts = r.attempts + 1],
          out |-> [NoResult EXCEPT !.token = r.tokens[r.idx + 1], !.idx = r.idx]]
    ELSE LET advanced == [r EXCEPT !.idx = (r.idx + 1) % Len(r.tokens)]
         IN  IF advanced.idx = startIdx
             THEN [r |-> advanced, out |-> Exhausted(advanced)]
             ELSE Find(advanced, startIdx)

\* a Next that moves on at every call
onFirstFailedRotator_NextRotates(r) == roundRobinRotator_Next(r)

\* onFirstFailedRotator.Next
onFirstFailedRotator_Next(r) ==
    IF Len(r.tokens) = 0
    THEN [r |-> r, out |-> [NoResult EXCEPT !.err = "ErrNoTokens"]]
    ELSE IF \A i \in 0..(Len(r.tokens) - 1) : r.fails[i + 1] # 0
         THEN [r |-> r, out |-> Exhausted(r)]
         ELSE Find(r, r.idx)

\* a Fail whose second call for a token clears the count of the first
onFirstFailedRotator_FailWraps(r, idx, status) ==
    IF idx >= 0 /\ idx < Len(r.fails)
    THEN [r EXCEPT !.fails[idx + 1] = (r.fails[idx + 1] + 1) % 2,
                   !.statuses = Append(r.statuses, status),
                   !.idx = (r.idx + 1) % Len(r.tokens)]
    ELSE r

\* onFirstFailedRotator.Fail
onFirstFailedRotator_Fail(r, idx, status) ==
    IF idx >= 0 /\ idx < Len(r.fails)
    THEN [r EXCEPT !.fails[idx + 1] = r.fails[idx + 1] + 1,
                   !.statuses = Append(r.statuses, status),
                   !.idx = (r.idx + 1) % Len(r.tokens)]
    ELSE r

\* a Success that makes its token the current one
onFirstFailedRotator_SuccessMoves(r, idx) ==
    IF idx >= 0 /\ idx < Len(r.fails) THEN [r EXCEPT !.fails[idx + 1] = 0, !.idx = idx] ELSE r

\* onFirstFailedRotator.Success
onFirstFailedRotator_Success(r, idx) ==
    IF idx >= 0 /\ idx < Len(r.fails) THEN [r EXCEPT !.fails[idx + 1] = 0] ELSE r

\* TokenRotator.Next, Fail and Success of rotator r; those of the round-robin
\* rotator other than Next do nothing
rotatorNext(r) ==
    IF r.mode = "round-robin" THEN roundRobinRotator_Next(r) ELSE onFirstFailedRotator_Next(r)

\* a Fail that counts and advances for the round-robin rotator too
rotatorFailAdvances(r, idx, status) == onFirstFailedRotator_Fail(r, idx, status)

rotatorFail(r, idx, status) ==
    IF r.mode = "round-robin" THEN r ELSE onFirstFailedRotator_Fail(r, idx, status)

rotatorSuccess(r, idx) ==
    IF r.mode = "round-robin" THEN r ELSE onFirstFailedRotator_Success(r, idx)

\* the local variables of a registration request
NoRegistration == [clientIP |-> "", redirectURIs |-> <<>>, clientID |-> ""]

\* the local state of a goroutine before its first step
Idle == [pc |-> "idle", req |-> NoRequest, auth |-> NoAuth, old |-> NoToken,
         tok |-> NoToken, snap |-> NoSnapshot, cont |-> "", reg |-> NoRegistration]

NoServe == [route |-> "", header |-> <<>>, status |-> 0, backend |-> FALSE,
            username |-> "", token |-> "", how |-> ""]

\* AuthPageData: what the login page is rendered from
NoPage == [ClientID |-> "", ClientName |-> "", ResourceName |-> "", RedirectURI |-> "",
           ResponseType |-> "", Scope |-> "", State |-> "", CodeChallenge |-> "",
           Resource |-> "", ErrorMessage |-> ""]

\* the answer of the token endpoint: reached tells that the request got as far
\* as the lookup, cause what the lookup and the checks after it found; and the
\* answer of the registration endpoint, with the resolved client IP and the
\* redirect_uris of the request
NoAnswer == [grant |-> "", key |-> "", error |-> "", status |-> 0, token |-> NoToken,
             reached |-> FALSE, cause |-> "", ip |-> "", uris |-> <<>>, page |-> NoPage]

\* no request was served and no token request answered in this step
Quiet == served' = NoServe /\ answer' = NoAnswer

\* the persisted file a fresh deployment starts from, and one left by an earlier run
PersistedClient ==
    [ClientID |-> "c0", ClientSecret |-> "s0",
     RedirectURIs |-> <<"https://claude.ai/api/mcp/auth_callback">>]

\* json.MarshalIndent of OAuthPersistenceData: the fields under their JSON
\* keys, an empty client_secret left out (omitempty), the exported fields of
\* AccessToken under their names
MarshalClient(c) ==
    IF c.ClientSecret = ""
    THEN [client_id |-> c.ClientID, redirect_uris |-> c.RedirectURIs]
    ELSE [client_id |-> c.ClientID, client_secret |-> c.ClientSecret,
          redirect_uris |-> c.RedirectURIs]

MarshalToken(t) ==
    [Token |-> t.Token, RefreshToken |-> t.RefreshToken, ClientID |-> t.ClientID,
     Scope |-> t.Scope, Resource |-> t.Resource, ExpiresAt |-> t.ExpiresAt]

Marshal(data) ==
    [clients |-> [k \in DOMAIN data.Clients |-> MarshalClient(data.Clients[k])],
     accessTokens |-> [k \in DOMAIN data.AccessTokens |-> MarshalToken(data.AccessTokens[k])]]

\* json.Unmarshal into OAuthPersistenceData: a key that is missing leaves the
\* zero value of its field
UnmarshalClient(j) ==
    [ClientID |-> j.client_id,
     ClientSecret |-> IF "client_secret" \in DOMAIN j THEN j.client_secret ELSE "",
     RedirectURIs |-> j.redirect_uris]

UnmarshalToken(j) ==
    [Token |-> j.Token, RefreshToken |-> j.RefreshToken, ClientID |-> j.ClientID,
     Scope |-> j.Scope, Resource |-> j.Resource, ExpiresAt |-> j.ExpiresAt, Username |-> ""]

Unmarshal(text) ==
    [Clients |-> [k \in DOMAIN text.clients |-> UnmarshalClient(text.clients[k])],
     AccessTokens |-> [k \in DOMAIN text.accessTokens |-> UnmarshalToken(text.accessTokens[k])]]

\* loadClients: the clients of the file, and its tokens whose ExpiresAt is
\* after the instant of the load
loadClients(text, t) ==
    LET data == Unmarshal(text)
    IN  [Clients |-> data.Clients,
         AccessTokens |-> [k \in {k \in DOMAIN data.AccessTokens :
                                    data.AccessTokens[k].ExpiresAt > t} |-> data.AccessTokens[k]]]

\* NewOAuthServer: the templates, empty maps, then loadClients on the
\* persistence file; dir is the state of the template directory
NewOAuthServer(text, dir) ==
    /\ templates = [NoTemplates EXCEPT !.dir = dir, !.parsed = LoadTemplates(dir)]
    /\ file = text
    /\ now = 0
    /\ clients = loadClients(file, now).Clients
    /\ accessTokens = loadClients(file, now).AccessTokens
    /\ loaded = [text |-> file, at |-> now, Clients |-> clients, AccessTokens |-> accessTokens]
    /\ authCodes = Empty
    /\ procs = EmptyBag
    /\ served = NoServe
    /\ issued = Empty
    /\ minted = Empty
    /\ consumed = {}
    /\ pkceFailed = {}
    /\ answer = NoAnswer
    /\ mutex = Unlocked
    /\ rotator = NoRotator
    /\ rotation = NoRotation
    /\ chain = NoChain
    /\ allowed = NoCheck

\* the server started where no template directory exists
StartFrom(text) == NewOAuthServer(text, "absent")

\* an earlier run has left the file with one registered client
Start == StartFrom(Marshal([Clients |-> ("c0" :> PersistedClient), AccessTokens |-> Empty]))

\* OAuth2 is enabled in the configuration
Init == Start /\ oauth2Enabled = TRUE /\ accessAllowedIPs = AllowedIPs

\* the configuration gives an IP allowlist or none
InitRegister == Start /\ oauth2Enabled = TRUE /\ accessAllowedIPs \in {<<>>, AllowedIPs}

\* the configuration enables OAuth2 or leaves it disabled
InitHTTP == Start /\ oauth2Enabled \in BOOLEAN /\ accessAllowedIPs = AllowedIPs

\* the goroutines that are running
Running == BagToSet(procs)

\* one more goroutine can start when fewer than limit are running
CanStart(limit) == BagCardinality(procs) < limit

\* goroutine g starts, takes a step to local state h, ends
Go(g) == procs (+) SetToBag({g})
Step(g, h) == (procs (-) SetToBag({g})) (+) SetToBag({h})
End(g) == procs (-) SetToBag({g})

\* the running token requests that can still mint a pair
Minting ==
    {g \in Running : \/ g.pc \in {"mint", "rmint"}
                     \/ g.cont = "rcheck" /\ g.old.ClientID = g.req.clientID}

\* the clients, codes and pairs created so far, and the pairs on their way
Created ==
    Cardinality(DOMAIN clients) + Cardinality(DOMAIN issued) + Cardinality(DOMAIN minted)
        + Cardinality(Minting)

Remove(f, k) == [x \in DOMAIN f \ {k} |-> f[x]]

\* an assignment that leaves nothing in the map but the new entry
PutAlone(f, k, v) == (k :> v)

\* the map after the assignment f[k] = v
Put(f, k, v) == [x \in DOMAIN f \cup {k} |-> IF x = k THEN v ELSE f[x]]

\* time passes
Tick ==
    /\ now < MaxTime
    /\ now' = now + 1
    /\ Quiet
    /\ UNCHANGED <<clients, authCodes, accessTokens, file, procs, oauth2Enabled,
                   accessAllowedIPs, rest>>
    /\ UNCHANGED history

\* the process stops and is started again: its goroutines and its codes are
\* gone, and NewOAuthServer loads the maps from the persistence file
Restart ==
    /\ procs' = EmptyBag
    /\ authCodes' = Empty
    /\ clients' = loadClients(file, now).Clients
    /\ accessTokens' = loadClients(file, now).AccessTokens
    /\ loaded' = [text |-> file, at |-> now, Clients |-> clients',
                  AccessTokens |-> accessTokens']
    /\ Quiet
    /\ UNCHANGED <<file, now, oauth2Enabled, accessAllowedIPs, rest>>
    /\ UNCHANGED <<issued, minted, consumed, pkceFailed>>

(***************************************************************************)
(* POST /oauth/register                                                    *)
(***************************************************************************)
\* net.ParseIP accepts the text
ParseIP(text) == text \in {"10.0.0.1", "203.0.113.9"}

\* getClientIP: the first header, in the order of precedence, whose address
\* parses; the host of RemoteAddr when there is none.  A request is given by
\* the address text each header yields ("" without the header) and by the host
\* of RemoteAddr
ClientIPHeaders ==
    <<"CF-Connecting-IP", "True-Client-IP", "X-Real-IP", "X-Forwarded-For",
      "X-Cluster-Client-IP", "X-Forwarded", "Forwarded">>

RECURSIVE FirstParsed(_, _)
FirstParsed(r, i) ==
    IF i > Len(ClientIPHeaders) THEN r.RemoteAddr
    ELSE IF r[ClientIPHeaders[i]] # "" /\ ParseIP(r[ClientIPHeaders[i]])
         THEN r[ClientIPHeaders[i]]
    ELSE FirstParsed(r, i + 1)

getClientIP(r) == FirstParsed(r, 1)

\* an allowlist test that lets every address through
isIPAllowedEveryone(clientIP, allowedIPs) == TRUE

isIPAllowed(clientIP, allowedIPs) ==
    \/ Len(allowedIPs) = 0
    \/ \E i \in 1..Len(allowedIPs) : clientIP = allowedIPs[i]

\* a validation of redirect_uris that looks at the first URI only
RegistrationErrorFirstURI(clientIP, redirectURIs) ==
    IF Len(accessAllowedIPs) > 0 /\ ~isIPAllowed(clientIP, accessAllowedIPs)
    THEN "access_denied"
    ELSE IF Len(redirectURIs) = 0 THEN "invalid_redirect_uri"
    ELSE IF redirectURIs[1] \notin Range(allowedCallbackURLs) THEN "invalid_redirect_uri"
    ELSE ""

\* the error handleClientRegistration answers with, "" when it registers
RegistrationError(clientIP, redirectURIs) ==
    IF Len(accessAllowedIPs) > 0 /\ ~isIPAllowed(clientIP, accessAllowedIPs)
    THEN "access_denied"
    ELSE IF Len(redirectURIs) = 0 THEN "invalid_redirect_uri"
    ELSE IF \E i \in 1..Len(redirectURIs) : redirectURIs[i] \notin Range(allowedCallbackURLs)
         THEN "invalid_redirect_uri"
    ELSE ""

\* the HTTP status writeOAuthError is called with for the error
StatusOf(error) ==
    CASE error = "access_denied" -> 403
      [] error = "invalid_client" -> 401
      [] OTHER -> 400

\* the answer to a registration request that is refused
Refused(error, clientIP, redirectURIs) ==
    [NoAnswer EXCEPT !.grant = "register", !.error = error, !.status = StatusOf(error),
                     !.ip = clientIP, !.uris = redirectURIs]

\* the answer to a registration request that has stored its client: 201 with
\* the ClientRegistrationResponse
Registered(reg) ==
    [NoAnswer EXCEPT !.grant = "register", !.key = reg.clientID, !.status = 201,
                     !.ip = reg.clientIP, !.uris = reg.redirectURIs]

\* handleClientRegistration up to the end of its critical section
handleClientRegistration(limit, clientIP, redirectURIs) ==
    /\ CanStart(limit)
    /\ Created < MaxObjects
    /\ served' = NoServe
    /\ IF RegistrationError(clientIP, redirectURIs) # ""
       THEN /\ answer' = Refused(RegistrationError(clientIP, redirectURIs), clientIP,
                                 redirectURIs)
            /\ UNCHANGED <<clients, procs>>
       ELSE LET n == Cardinality(DOMAIN clients)
                clientID == generateRandomString("client", n)
                clientSecret == generateRandomString("secret", n)
                client == [ClientID |-> clientID, ClientSecret |-> clientSecret,
                           RedirectURIs |-> redirectURIs]
            IN  /\ answer' = NoAnswer
                /\ clients' = Put(clients, clientID, client)
                /\ procs' = Go([Idle EXCEPT !.pc = "snap", !.cont = "register",
                                            !.reg = [clientIP |-> clientIP,
                                                     redirectURIs |-> redirectURIs,
                                                     clientID |-> clientID]])
    /\ UNCHANGED <<authCodes, accessTokens, file, now, oauth2Enabled, accessAllowedIPs, rest>>
    /\ UNCHANGED history

(***************************************************************************)
(* POST /oauth/authorize                                                   *)
(***************************************************************************)
\* the configured password exists and equals the submitted one
CredentialsOK(username, password) ==
    /\ username \in DOMAIN Users
    /\ Users[username] = password

\* a failure message that tells which of the two fields was wrong
LoginFailureNamesField(username, password) ==
    IF username \notin DOMAIN Users THEN "Unknown username."
    ELSE IF Users[username] # password THEN "Wrong password."
    ELSE ""

\* the message of a failed login, "" when the credentials are right
LoginFailure(username, password) ==
    IF ~CredentialsOK(username, password)
    THEN "Invalid username or password. Please try again."
    ELSE ""

\* the last segment of the path of the resource; the resources of the model
\* have a single segment
ResourceName(resource) == IF resource = "" THEN "MCP Proxy" ELSE resource

\* showAuthorizationPage: the data the login form is rendered from
showAuthorizationPage(clientID, redirectURI, responseType, scope, state, codeChallenge, resource, errorMsg) ==
    [ClientID |-> clientID, ClientName |-> "Claude", ResourceName |-> ResourceName(resource),
     RedirectURI |-> redirectURI, ResponseType |-> responseType, Scope |-> scope,
     State |-> state, CodeChallenge |-> codeChallenge, Resource |-> resource,
     ErrorMessage |-> errorMsg]

\* showSuccessPage: the redirect URL, with the code and the state in its query
\* (the state only when it is not empty), and the user name
showSuccessPage(redirectURI, code, state, username) ==
    [RedirectURL |-> [uri |-> redirectURI, code |-> code, state |-> state],
     Username |-> username]

\* a validation of the GET request that looks the client up as well
AuthorizationRequestErrorChecksClient(clientID, redirectURI, responseType) ==
    IF clientID = "" \/ redirectURI = "" \/ responseType # "code" THEN "invalid_request"
    ELSE IF clientID \notin DOMAIN clients THEN "invalid_client"
    ELSE ""

\* the validation of handleAuthorizationGET: the error of the request, "" when
\* it passes
AuthorizationRequestError(clientID, redirectURI, responseType) ==
    IF clientID = "" \/ redirectURI = "" \/ responseType # "code" THEN "invalid_request"
    ELSE ""

\* GET /oauth/authorize: the error, or the login form with no error message
handleAuthorizationGET(clientID, redirectURI, responseType, scope, state, codeChallenge, resource) ==
    /\ served' = NoServe
    /\ LET error == AuthorizationRequestError(clientID, redirectURI, responseType)
       IN  answer' =
              IF error # ""
              THEN [NoAnswer EXCEPT !.grant = "authorize", !.error = error,
                                    !.status = IF error = "invalid_client" THEN 401 ELSE 400]
              ELSE [NoAnswer EXCEPT
                       !.grant = "authorize", !.status = 200,
                       !.page = showAuthorizationPage(clientID, redirectURI, responseType,
                                                      scope, state, codeChallenge, resource, "")]
    /\ UNCHANGED <<clients, authCodes, accessTokens, file, now, procs, oauth2Enabled,
                   accessAllowedIPs, rest>>
    /\ UNCHANGED history

\* POST /oauth/authorize: the login form is re-rendered, or a code is issued
handleAuthorizationPOST(username, password, clientID, redirectURI, scope, state, codeChallenge, resource) ==
    /\ Created < MaxObjects
    /\ served' = NoServe
    /\ LET errorMsg == LoginFailure(username, password)
       IN  IF errorMsg # ""
           THEN /\ answer' = [NoAnswer EXCEPT
                                 !.grant = "login", !.status = 200, !.cause = "credentials",
                                 !.page = showAuthorizationPage(clientID, redirectURI, "code",
                                              scope, state, codeChallenge, resource, errorMsg)]
                /\ UNCHANGED <<authCodes, issued>>
           ELSE LET code == generateRandomString("code", Cardinality(DOMAIN issued) + 1)
                    authCode == [Code |-> code, ClientID |-> clientID,
                                 RedirectURI |-> redirectURI, Scope |-> scope,
                                 CodeChallenge |-> codeChallenge,
                                 ExpiresAt |-> now + CodeTTL, Resource |-> resource]
                IN  /\ authCodes' = Put(authCodes, code, authCode)
                    /\ issued' = issued @@
                           (code :> [username |-> username, authCode |-> authCode])
                    /\ answer' = [NoAnswer EXCEPT
                                     !.grant = "login", !.status = 200,
                                     !.page = showSuccessPage(redirectURI, code, state,
                                                              username)]
    /\ UNCHANGED <<clients, accessTokens, file, now, procs, oauth2Enabled, accessAllowedIPs, rest>>
    /\ UNCHANGED <<minted, consumed, pkceFailed, loaded>>

(***************************************************************************)
(* POST /oauth/token                                                       *)
(***************************************************************************)
\* the error answer to a request that reached the lookup
Answer(grant, key, error, status, cause) ==
    [NoAnswer EXCEPT !.grant = grant, !.key = key, !.error = error, !.status = status,
                     !.reached = TRUE, !.cause = cause]

\* the answer to a request rejected before the lookup
Rejected(error) == [NoAnswer EXCEPT !.error = error]

\* the error handleToken (and handleRefreshToken) answers with before it looks
\* the code (the refresh token) up, "" when the request passes
PreLookupError(contentType, grantType, req) ==
    IF grantType = "refresh_token"
    THEN \* handleRefreshToken decodes the JSON body that handleToken has read already
         IF contentType = "application/json" THEN "invalid_request"
         ELSE IF req.refreshToken = "" THEN "invalid_request"
         ELSE IF req.clientID \notin DOMAIN clients THEN "invalid_client"
         ELSE ""
    ELSE IF grantType # "authorization_code" THEN "unsupported_grant_type"
    ELSE IF req.code = "" \/ req.redirectURI = "" \/ req.clientID = "" THEN "invalid_request"
    ELSE IF req.clientID \notin DOMAIN clients THEN "invalid_client"
    ELSE ""

\* an expiry test that fires one tick late
ExpiredLate(t, expiresAt) == t > expiresAt + 1

\* an expiry test that fires at the instant of expiry already
ExpiredEarly(t, expiresAt) == t >= expiresAt

\* time.Now().After(expiresAt)
Expired(t, expiresAt) == t > expiresAt

\* the PKCE check of handleToken: made only when both sides are present
PKCEFails(codeVerifier, codeChallenge) ==
    /\ codeVerifier # ""
    /\ codeChallenge # ""
    /\ S256(codeVerifier) # codeChallenge

\* the error of the checks handleToken makes on the code it has taken out
CodeError(authCode, req, t) ==
    IF Expired(t, authCode.ExpiresAt) THEN "expired"
    ELSE IF authCode.ClientID # req.clientID \/ authCode.RedirectURI # req.redirectURI
         THEN "mismatch"
    ELSE IF PKCEFails(req.codeVerifier, authCode.CodeChallenge) THEN "pkce"
    ELSE ""

\* the values the log lines of a token request contain.  The JSON branch logs
\* five parameters; the form branch logs every posted value and then the same
\* five; the PKCE check, when it is made, logs the verifier and both challenges
TokenLog(contentType, grantType, req) ==
    LET params == {grantType, req.code, req.redirectURI, req.clientID, req.resource}
        PostForm == {grantType, req.code, req.redirectURI, req.clientID, req.codeVerifier,
                     req.resource, req.refreshToken, req.clientSecret}
        checked == /\ grantType = "authorization_code"
                   /\ PreLookupError(contentType, grantType, req) = ""
                   /\ req.code \in DOMAIN authCodes
                   /\ CodeError(authCodes[req.code], req, now) \in {"", "pkce"}
                   /\ req.codeVerifier # ""
                   /\ authCodes[req.code].CodeChallenge # ""
        pkce == IF checked
                THEN {req.codeVerifier, authCodes[req.code].CodeChallenge, S256(req.codeVerifier)}
                ELSE {}
    IN  ((IF contentType = "application/json" THEN params ELSE PostForm \cup params)
            \cup pkce) \ {""}

\* the values the log lines of a login attempt contain: the user name, the
\* client and, after a successful login, the code
LoginLog(username, clientID, codes) == {username, clientID} \cup codes

\* a lookup that leaves the code in the map
PopCodeKeeps(codes, code) == codes

\* a lookup that takes out only the codes that carry no PKCE challenge
PopCodeUnbound(codes, code) ==
    IF code \in DOMAIN codes /\ codes[code].CodeChallenge = "" THEN Remove(codes, code)
    ELSE codes

\* a lookup that leaves an expired code in the map
PopCodeFresh(codes, code) ==
    IF code \in DOMAIN codes /\ codes[code].ExpiresAt >= now THEN Remove(codes, code)
    ELSE codes

\* the authCodes map after handleToken has looked the code up
PopCode(codes, code) == IF code \in DOMAIN codes THEN Remove(codes, code) ELSE codes

\* handleToken for every grant type but refresh_token, up to the end of the
\* checks on the code.  The lookup of the client and the lookup of the code are
\* two critical sections; the first reads only clients, which no step shrinks
\* or changes, so it is placed at the instant of the second
handleToken(limit, contentType, grantType, req) ==
    /\ CanStart(limit)
    /\ grantType # "refresh_token"
    /\ served' = NoServe
    /\ LET early == PreLookupError(contentType, grantType, req)
           exists == req.code \in DOMAIN authCodes
           error == IF exists THEN CodeError(authCodes[req.code], req, now) ELSE "absent"
       IN  IF early # ""
           THEN /\ answer' = Rejected(early)
                /\ UNCHANGED <<procs, authCodes, pkceFailed>>
           ELSE /\ authCodes' = PopCode(authCodes, req.code)
                /\ IF error # ""
                   THEN /\ answer' = Answer(grantType, req.code, "invalid_grant", 400, error)
                        /\ UNCHANGED procs
                        /\ pkceFailed' = IF error = "pkce" THEN pkceFailed \cup {req.code}
                                                          ELSE pkceFailed
                   ELSE /\ Created < MaxObjects
                        /\ answer' = NoAnswer
                        /\ procs' = Go([Idle EXCEPT !.pc = "mint", !.req = req,
                                                    !.auth = authCodes[req.code]])
                        /\ UNCHANGED pkceFailed
    /\ UNCHANGED <<clients, accessTokens, file, now, oauth2Enabled, accessAllowedIPs, rest>>
    /\ UNCHANGED <<issued, minted, consumed, loaded>>

\* an AccessToken whose refresh token is not generated anew
NewTokenSameRefresh(n, clientID, scope, resource, t) ==
    [Token |-> generateRandomString("at", n), RefreshToken |-> generateRandomString("rt", 0),
     ClientID |-> clientID, Scope |-> scope, Resource |-> resource,
     ExpiresAt |-> t + tokenExpiration, Username |-> ""]

\* the AccessToken handleToken builds
NewToken(n, clientID, scope, resource, t) ==
    [Token |-> generateRandomString("at", n), RefreshToken |-> generateRandomString("rt", n),
     ClientID |-> clientID, Scope |-> scope, Resource |-> resource,
     ExpiresAt |-> t + tokenExpiration, Username |-> ""]

\* handleToken: the pair is generated and stored
handleToken_mint(g) ==
    /\ g \in Running
    /\ g.pc = "mint"
    /\ Quiet
    /\ LET req == g.req
           authCode == g.auth
           token == NewToken(Cardinality(DOMAIN minted) + 1, req.clientID, authCode.Scope,
                             req.resource, now)
       IN  /\ accessTokens' = Put(accessTokens, token.Token, token)
           /\ procs' = Step(g, [g EXCEPT !.pc = "snap", !.cont = "token", !.tok = token])
           /\ minted' = minted @@ (token.Token :>
                  [token |-> token, code |-> authCode.Code, parent |-> "",
                   codeVerifier |-> req.codeVerifier, codeChallenge |-> authCode.CodeChallenge])
    /\ UNCHANGED <<clients, authCodes, file, now, oauth2Enabled, accessAllowedIPs, rest>>
    /\ UNCHANGED <<issued, consumed, pkceFailed, loaded>>

\* the keys of the stored pairs that carry the refresh token
Matching(tokens, refreshToken) ==
    {k \in DOMAIN tokens : tokens[k].RefreshToken = refreshToken}

\* a refresh that leaves the old pair in the map
DeletePairKeeps(tokens, oldAccessTokenKey) == tokens

\* the map after handleRefreshToken has deleted the pair it found
DeletePair(tokens, oldAccessTokenKey) == Remove(tokens, oldAccessTokenKey)

\* handleToken for grant_type=refresh_token, and handleRefreshToken up to the
\* end of the critical section that scans accessTokens for the refresh token
\* and deletes the pair it finds (the lookup of the client is placed at the
\* same instant, as in handleToken)
handleRefreshToken(limit, contentType, req) ==
    /\ CanStart(limit)
    /\ served' = NoServe
    /\ LET early == PreLookupError(contentType, "refresh_token", req)
           found == Matching(accessTokens, req.refreshToken)
       IN  IF early # ""
           THEN /\ answer' = Rejected(early)
                /\ UNCHANGED <<procs, accessTokens, consumed>>
           ELSE IF found = {}
           THEN /\ answer' = Answer("refresh_token", req.refreshToken, "invalid_grant", 400,
                                     "absent")
                /\ UNCHANGED <<procs, accessTokens, consumed>>
           ELSE \E oldAccessTokenKey \in found :
                /\ accessTokens[oldAccessTokenKey].ClientID = req.clientID =>
                       Created < MaxObjects
                /\ answer' = NoAnswer
                /\ accessTokens' = DeletePair(accessTokens, oldAccessTokenKey)
                /\ consumed' = consumed \cup {req.refreshToken}
                /\ procs' = Go([Idle EXCEPT !.pc = "snap", !.cont = "rcheck", !.req = req,
                                            !.old = accessTokens[oldAccessTokenKey]])
    /\ UNCHANGED <<clients, authCodes, file, now, oauth2Enabled, accessAllowedIPs, rest>>
    /\ UNCHANGED <<issued, minted, pkceFailed, loaded>>

\* handleRefreshToken: the new pair is generated and stored
handleRefreshToken_mint(g) ==
    /\ g \in Running
    /\ g.pc = "rmint"
    /\ Quiet
    /\ LET req == g.req
           oldToken == g.old
           token == NewToken(Cardinality(DOMAIN minted) + 1, req.clientID, oldToken.Scope,
                             oldToken.Resource, now)
       IN  /\ accessTokens' = Put(accessTokens, token.Token, token)
           /\ procs' = Step(g, [g EXCEPT !.pc = "snap", !.cont = "token", !.tok = token])
           /\ minted' = minted @@ (token.Token :>
                  [token |-> token, code |-> "", parent |-> oldToken.RefreshToken,
                   codeVerifier |-> "", codeChallenge |-> ""])
    /\ UNCHANGED <<clients, authCodes, file, now, oauth2Enabled, accessAllowedIPs, rest>>
    /\ UNCHANGED <<issued, consumed, pkceFailed, loaded>>

(***************************************************************************)
(* saveClients                                                             *)
(***************************************************************************)
\* the copy of the maps saveClients takes under the read lock
Snapshot == [Clients |-> clients, AccessTokens |-> accessTokens]

saveClients_snapshot(g) ==
    /\ g \in Running
    /\ g.pc = "snap"
    /\ Quiet
    /\ procs' = Step(g, [g EXCEPT !.pc = "write", !.snap = Snapshot])
    /\ UNCHANGED <<clients, authCodes, accessTokens, file, now, oauth2Enabled,
                   accessAllowedIPs, rest>>
    /\ UNCHANGED history

\* os.WriteFile of the copy, then what the caller does after saveClients
\* returns: answer the request, or (handleRefreshToken) check the client
saveClients_write(g) ==
    /\ g \in Running
    /\ g.pc = "write"
    /\ served' = NoServe
    /\ file' = Marshal(g.snap)
    /\ LET req == g.req
       IN  CASE g.cont = "token" ->
                  /\ answer' = [NoAnswer EXCEPT
                                    !.grant = IF g.auth = NoAuth THEN "refresh_token"
                                                               ELSE "authorization_code",
                                    !.key = IF g.auth = NoAuth THEN req.refreshToken
                                                             ELSE req.code,
                                    !.status = 200, !.token = g.tok, !.reached = TRUE]
                  /\ procs' = End(g)
             [] g.cont = "rcheck" /\ g.old.ClientID # req.clientID ->
                  /\ answer' = Answer("refresh_token", req.refreshToken, "invalid_grant", 400,
                                       "mismatch")
                  /\ procs' = End(g)
             [] g.cont = "rcheck" /\ g.old.ClientID = req.clientID ->
                  /\ answer' = NoAnswer
                  /\ procs' = Step(g, [g EXCEPT !.pc = "rmint", !.cont = "",
                                                     !.snap = NoSnapshot])
             [] g.cont = "register" ->
                  /\ answer' = Registered(g.reg)
                  /\ procs' = End(g)
             [] OTHER ->
                  /\ answer' = NoAnswer
                  /\ procs' = End(g)
    /\ UNCHANGED <<clients, authCodes, accessTokens, now, oauth2Enabled, accessAllowedIPs, rest>>
    /\ UNCHANGED history

(***************************************************************************)
(* ValidateToken and the cleanup goroutine it starts                       *)
(***************************************************************************)
\* a ValidateToken that starts the cleanup goroutine for every stored entry
\* it refuses or returns
ValidateTokenSweeps(tokenString) ==
    IF tokenString \notin DOMAIN accessTokens
    THEN [token |-> NoToken, valid |-> FALSE, cleanup |-> FALSE]
    ELSE IF Expired(now, accessTokens[tokenString].ExpiresAt)
         THEN [token |-> NoToken, valid |-> FALSE, cleanup |-> TRUE]
         ELSE [token |-> accessTokens[tokenString], valid |-> TRUE, cleanup |-> TRUE]

\* what ValidateToken returns, and whether it starts the cleanup goroutine
ValidateToken(tokenString) ==
    IF tokenString \notin DOMAIN accessTokens
    THEN [token |-> NoToken, valid |-> FALSE, cleanup |-> FALSE]
    ELSE IF Expired(now, accessTokens[tokenString].ExpiresAt)
         THEN [token |-> NoToken, valid |-> FALSE, cleanup |-> TRUE]
         ELSE [token |-> accessTokens[tokenString], valid |-> TRUE, cleanup |-> FALSE]

\* a cleanup goroutine that leaves the entry in the map
CleanupDeleteKeeps(tokens, tokenString) == tokens

\* the map after the cleanup goroutine's delete
CleanupDelete(tokens, tokenString) ==
    IF tokenString \in DOMAIN tokens THEN Remove(tokens, tokenString) ELSE tokens

\* the goroutine of ValidateToken: delete, then saveClients
cleanup_delete(g) ==
    /\ g \in Running
    /\ g.pc = "cdel"
    /\ Quiet
    /\ accessTokens' = CleanupDelete(accessTokens, g.req.tokenString)
    /\ procs' = Step(g, [g EXCEPT !.pc = "snap", !.cont = "end"])
    /\ UNCHANGED <<clients, authCodes, file, now, oauth2Enabled, accessAllowedIPs, rest>>
    /\ UNCHANGED history

\* ValidateToken called for a bearer token by the goroutine of a request: an
\* expired entry starts the cleanup goroutine, which outlives the caller;
\* nothing else changes
callValidateToken(limit, tokenString) ==
    /\ CanStart(limit)
    /\ Quiet
    /\ IF ValidateToken(tokenString).cleanup
       THEN procs' = Go([Idle EXCEPT !.pc = "cdel", !.req.tokenString = tokenString])
       ELSE UNCHANGED procs
    /\ UNCHANGED <<clients, authCodes, accessTokens, file, now, oauth2Enabled,
                   accessAllowedIPs, rest>>
    /\ UNCHANGED history

(***************************************************************************)
(* The lock protocol.  Each operation is the sequence of its calls on the  *)
(* mutex, of its calls of os.WriteFile and of its returns; a goroutine has *)
(* the instructions of its operation that it has still to run.  The        *)
(* critical sections of the handlers work on the maps only and are left    *)
(* out; ValidateToken, its cleanup goroutine and saveClients act on        *)
(* accessTokens and the file.                                              *)
(***************************************************************************)
\* a saveClients that releases the shared lock by defer, after the write
saveClientsDeferred == <<"RLock", "copy", "WriteFile", "written", "RUnlock">>

\* saveClients: copy under the shared lock, then marshal and write
saveClients == <<"RLock", "copy", "RUnlock", "WriteFile", "written">>

\* a cleanup that saves before it releases the exclusive lock
cleanupInline == <<"Lock", "delete">> \o saveClients \o <<"Unlock">>

\* the goroutine ValidateToken starts for an expired token
cleanup == <<"Lock", "delete", "Unlock">> \o saveClients

\* "check" is a test after which the operation returns or goes on
Program(op) ==
    CASE op = "ValidateToken" -> <<"RLock", "lookup", "RUnlock">>
      [] op = "cleanup" -> cleanup
      [] op = "handleClientRegistration" -> <<"check", "Lock", "Unlock">> \o saveClients
      [] op = "handleAuthorizationPOST" -> <<"check", "Lock", "Unlock">>
      [] op = "handleToken" ->
            <<"check", "RLock", "RUnlock", "check", "Lock", "Unlock", "check", "Lock", "Unlock">>
                \o saveClients
      [] op = "handleRefreshToken" ->
            <<"check", "RLock", "RUnlock", "check", "Lock", "Unlock", "check">> \o saveClients
                \o <<"check", "Lock", "Unlock">> \o saveClients

\* the operations a request or a caller starts
Operations ==
    {"ValidateToken", "handleClientRegistration", "handleAuthorizationPOST", "handleToken",
     "handleRefreshToken"}

\* the goroutines that can run at a time, numbered: the invocations, and for
\* each the cleanup goroutine that its ValidateToken starts
Callers == 1..MaxProcs
Cleaner(i) == i + MaxProcs
Slots == 1..(2 * MaxProcs)

\* a goroutine: todo is what it has still to run, held the lock it holds ("R",
\* "W" or none), wait what it is blocked on ("R": the readers' semaphore, "W":
\* the readers still to leave), child the slot kept for the goroutine
\* ValidateToken may start
NoThread == [id |-> 0, todo |-> <<>>, held |-> "", wait |-> "", tokenString |-> "",
             snap |-> NoSnapshot, child |-> 0]

\* the instruction goroutine g is at
Instr(g) == Head(g.todo)

\* goroutine g after the instruction it is at
Done(g) == [g EXCEPT !.todo = Tail(g.todo)]

FreeSlots == Slots \ ({g.id : g \in Running} \cup {g.child : g \in Running})

\* the bag after g has become h; a goroutine past its last instruction ends
Proceed(g, h) == IF h.todo = <<>> THEN End(g) ELSE Step(g, h)

\* what the lock protocol leaves alone
LockFrame ==
    UNCHANGED <<clients, authCodes, oauth2Enabled, accessAllowedIPs, served, answer, history,
                rotator, rotation, chain, allowed, templates>>

\* an operation is invoked; ValidateToken is called in the slots of validators
invoke(validators, op, tokenString) ==
    /\ op \in Operations
    /\ \E i \in FreeSlots \cap Callers :
          IF op = "ValidateToken"
          THEN /\ i \in validators
               /\ Cleaner(i) \in FreeSlots
               /\ procs' = Go([NoThread EXCEPT !.id = i, !.todo = Program(op),
                                               !.child = Cleaner(i),
                                               !.tokenString = tokenString])
          ELSE procs' = Go([NoThread EXCEPT !.id = i, !.todo = Program(op)])
    /\ UNCHANGED <<accessTokens, file, now, mutex>>
    /\ LockFrame

\* a test of the request: the operation returns or goes on
check(g, returns) ==
    /\ Instr(g) = "check"
    /\ procs' = IF returns THEN End(g) ELSE Proceed(g, Done(g))
    /\ UNCHANGED <<accessTokens, file, now, mutex>>
    /\ LockFrame

\* RLock: taken when no writer holds or awaits the lock, else the goroutine
\* blocks until a writer's Unlock lets it in
RLock(g) ==
    /\ Instr(g) = "RLock"
    /\ g.wait = ""
    /\ IF mutex.w
       THEN /\ procs' = Step(g, [g EXCEPT !.wait = "R"])
            /\ UNCHANGED mutex
       ELSE /\ procs' = Proceed(g, [Done(g) EXCEPT !.held = "R"])
            /\ mutex' = [mutex EXCEPT !.readers = mutex.readers + 1]
    /\ UNCHANGED <<accessTokens, file, now>>
    /\ LockFrame

\* RUnlock
RUnlock(g) ==
    /\ Instr(g) = "RUnlock"
    /\ procs' = Proceed(g, [Done(g) EXCEPT !.held = ""])
    /\ mutex' = [mutex EXCEPT !.readers = mutex.readers - 1]
    /\ UNCHANGED <<accessTokens, file, now>>
    /\ LockFrame

\* Lock: the goroutine takes the writers' mutex, which keeps new readers out,
\* and has the lock once no reader holds it
Lock(g) ==
    /\ Instr(g) = "Lock"
    /\ g.wait = ""
    /\ ~mutex.w
    /\ mutex' = [mutex EXCEPT !.w = TRUE]
    /\ procs' = IF mutex.readers = 0
                THEN Proceed(g, [Done(g) EXCEPT !.held = "W"])
                ELSE Step(g, [g EXCEPT !.wait = "W"])
    /\ UNCHANGED <<accessTokens, file, now>>
    /\ LockFrame

\* the last reader has left: the waiting writer has the lock
Locked(g) ==
    /\ Instr(g) = "Lock"
    /\ g.wait = "W"
    /\ mutex.readers = 0
    /\ procs' = Proceed(g, [Done(g) EXCEPT !.held = "W", !.wait = ""])
    /\ UNCHANGED <<accessTokens, file, now, mutex>>
    /\ LockFrame

\* Unlock: the blocked readers are let in, then the writers' mutex is released
Unlock(g) ==
    /\ Instr(g) = "Unlock"
    /\ LET blocked == {h \in Running : h.wait = "R"}
           others == Running \ (blocked \cup {g})
           after == [Done(g) EXCEPT !.held = ""]
       IN  /\ mutex' = [w |-> FALSE, readers |-> Cardinality(blocked)]
           /\ procs' = SetToBag(others
                          \cup {[Done(h) EXCEPT !.held = "R", !.wait = ""] :
                                  h \in blocked}
                          \cup (IF after.todo = <<>> THEN {} ELSE {after}))
    /\ UNCHANGED <<accessTokens, file, now>>
    /\ LockFrame

\* ValidateToken looks the token up and starts the cleanup goroutine for an
\* expired one, still under the shared lock
lookup(g) ==
    /\ Instr(g) = "lookup"
    /\ procs' = IF ValidateToken(g.tokenString).cleanup
                THEN Step(g, [Done(g) EXCEPT !.child = 0])
                        (+) SetToBag({[NoThread EXCEPT !.id = g.child, !.todo = cleanup,
                                                       !.tokenString = g.tokenString]})
                ELSE Step(g, [Done(g) EXCEPT !.child = 0])
    /\ UNCHANGED <<accessTokens, file, now, mutex>>
    /\ LockFrame

\* the delete of the cleanup goroutine
delete(g) ==
    /\ Instr(g) = "delete"
    /\ accessTokens' = CleanupDelete(accessTokens, g.tokenString)
    /\ procs' = Proceed(g, Done(g))
    /\ UNCHANGED <<file, now, mutex>>
    /\ LockFrame

\* saveClients copies the maps
copy(g) ==
    /\ Instr(g) = "copy"
    /\ procs' = Proceed(g, [Done(g) EXCEPT !.snap = Snapshot])
    /\ UNCHANGED <<accessTokens, file, now, mutex>>
    /\ LockFrame

\* os.WriteFile is called: the write is in progress until it returns
WriteFile(g) ==
    /\ Instr(g) = "WriteFile"
    /\ procs' = Proceed(g, Done(g))
    /\ UNCHANGED <<accessTokens, file, now, mutex>>
    /\ LockFrame

\* os.WriteFile returns
written(g) ==
    /\ Instr(g) = "written"
    /\ file' = Marshal(g.snap)
    /\ procs' = Proceed(g, [Done(g) EXCEPT !.snap = NoSnapshot])
    /\ UNCHANGED <<accessTokens, now, mutex>>
    /\ LockFrame

\* time passes for the lock protocol
LockTick ==
    /\ now < MaxTime
    /\ now' = now + 1
    /\ UNCHANGED <<accessTokens, file, procs, mutex>>
    /\ LockFrame

\* a step of the goroutine in slot i
Run(i) ==
    \E g \in Running :
        /\ g.id = i
        /\ \/ \E returns \in BOOLEAN : check(g, returns)
           \/ RLock(g)
           \/ RUnlock(g)
           \/ Lock(g)
           \/ Locked(g)
           \/ Unlock(g)
           \/ lookup(g)
           \/ delete(g)
           \/ copy(g)
           \/ WriteFile(g)
           \/ written(g)

\* the goroutine in slot i takes the writers' mutex
Acquire(i) == \E g \in Running : g.id = i /\ Lock(g)

(***************************************************************************)
(* The middleware of a proxied route.  A header value is a sequence of     *)
(* pieces: the scheme prefix with its blank, blanks, and token strings.    *)
(***************************************************************************)
RECURSIVE Flatten(_)
\* the pieces as one string
Flatten(s) == IF s = <<>> THEN "" ELSE Head(s) \o Flatten(Tail(s))

\* a prefix test that accepts every scheme
HasPrefixAny(s, prefix) == s # <<>>

\* strings.HasPrefix
HasPrefix(s, prefix) == s # <<>> /\ Head(s) = prefix

\* strings.TrimPrefix
TrimPrefix(s, prefix) == IF HasPrefix(s, prefix) THEN Tail(s) ELSE s

RECURSIVE TrimLeft(_)
TrimLeft(s) == IF s # <<>> /\ Head(s) = " " THEN TrimLeft(Tail(s)) ELSE s

RECURSIVE TrimRight(_)
TrimRight(s) ==
    IF s # <<>> /\ s[Len(s)] = " " THEN TrimRight(SubSeq(s, 1, Len(s) - 1)) ELSE s

\* strings.TrimSpace
TrimSpace(s) == TrimRight(TrimLeft(s))

\* a filter that refuses the user when the mode is not set or not known
IsUserAllowedDefaultDeny(ufc, username) ==
    IF ufc.nil \/ username = "" THEN TRUE
    ELSE LET userInList == \E i \in 1..Len(ufc.List) : ufc.List[i] = username
         IN  CASE ufc.Mode = "allow" -> userInList
               [] ufc.Mode = "block" -> ~userInList
               [] OTHER -> FALSE

\* UserFilterConfig.IsUserAllowed
IsUserAllowed(ufc, username) ==
    IF ufc.nil \/ username = "" THEN TRUE
    ELSE LET userInList == \E i \in 1..Len(ufc.List) : ufc.List[i] = username
         IN  CASE ufc.Mode = "allow" -> userInList
               [] ufc.Mode = "block" -> ~userInList
               [] OTHER -> TRUE

\* a chain whose first middleware is the outermost
chainMiddlewareFirstOutermost(h, middlewares) == middlewares \o h

RECURSIVE chainMiddleware(_, _)
\* chainMiddleware: every middleware wraps the handler built so far; a
\* handler is the sequence of its middlewares from the outermost inwards
chainMiddleware(h, middlewares) ==
    IF middlewares = <<>> THEN h
    ELSE chainMiddleware(<<Head(middlewares)>> \o h, Tail(middlewares))

\* the middlewares startHTTPServer assembles for a server, in order
Middlewares(name) ==
    LET options == McpServers[name]
        first == <<"recover">> \o (IF options.LogEnabled THEN <<"logger">> ELSE <<>>)
    IN  IF ProxyType = "streamable-http" /\ (oauth2Enabled \/ Len(options.AuthTokens) > 0)
        THEN first \o <<"combinedAuth">>
                   \o (IF oauth2Enabled /\ ~options.UserFilter.nil THEN <<"serverAccess">>
                                                                   ELSE <<>>)
        ELSE IF Len(options.AuthTokens) > 0 THEN first \o <<"auth">>
        ELSE first

\* the request context, and what the middlewares have found out so far
NoContext == [hasUsername |-> FALSE, username |-> "", token |-> "", how |-> "",
              cleanup |-> FALSE]

Reject(status, ctx) ==
    [status |-> status, backend |-> FALSE, username |-> ctx.username, token |-> ctx.token,
     how |-> ctx.how, cleanup |-> ctx.cleanup]

RECURSIVE Serve(_, _, _, _)
\* ServeHTTP of a chained handler: the outermost middleware runs first and
\* either answers the request or calls the rest of the chain
Serve(h, name, header, ctx) ==
    IF h = <<>>
    THEN [status |-> 200, backend |-> TRUE, username |-> ctx.username, token |-> ctx.token,
          how |-> ctx.how, cleanup |-> ctx.cleanup]
    ELSE LET next == Tail(h)
             options == McpServers[name]
             token == Flatten(TrimSpace(TrimPrefix(header, "Bearer ")))
         IN  CASE Head(h) = "combinedAuth" ->
                    IF header = <<>> THEN Reject(401, ctx)
                    ELSE IF ~HasPrefix(header, "Bearer ") THEN Reject(401, ctx)
                    ELSE IF token = "" THEN Reject(401, ctx)
                    ELSE IF Len(options.AuthTokens) > 0 /\ token \in Range(options.AuthTokens)
                         THEN Serve(next, name, header,
                                    [ctx EXCEPT !.token = token, !.how = "predefined"])
                    ELSE IF oauth2Enabled
                         THEN LET result == ValidateToken(token)
                              IN  IF result.valid
                                  THEN Serve(next, name, header,
                                             [ctx EXCEPT !.token = token, !.how = "oauth",
                                                         !.hasUsername = TRUE,
                                                         !.username = result.token.Username])
                                  ELSE Reject(401, [ctx EXCEPT !.token = token,
                                                               !.cleanup = result.cleanup])
                    ELSE Reject(401, ctx)
               [] Head(h) = "serverAccess" ->
                    IF options.UserFilter.nil THEN Serve(next, name, header, ctx)
                    ELSE IF ~ctx.hasUsername \/ ctx.username = ""
                         THEN Serve(next, name, header, ctx)
                    ELSE IF ~IsUserAllowed(options.UserFilter, ctx.username)
                         THEN Reject(403, ctx)
                    ELSE Serve(next, name, header, ctx)
               [] Head(h) = "auth" ->
                    IF Len(options.AuthTokens) = 0 THEN Serve(next, name, header, ctx)
                    ELSE IF token = "" THEN Reject(401, ctx)
                    ELSE IF token \notin Range(options.AuthTokens) THEN Reject(401, ctx)
                    ELSE Serve(next, name, header, [ctx EXCEPT !.token = token,
                                                               !.how = "predefined"])
               [] OTHER -> Serve(next, name, header, ctx)

\* the handler startHTTPServer registers for the route of a server
baseHandler(name) == chainMiddleware(<<>>, Middlewares(name))

\* one request to the route of a proxied server, on a goroutine of its own
\* that the cleanup goroutine of ValidateToken outlives
ServeRoute(limit, name, header) ==
    /\ CanStart(limit)
    /\ \E out \in {Serve(baseHandler(name), name, header, NoContext)} :
           /\ served' = [route |-> name, header |-> header, status |-> out.status,
                         backend |-> out.backend, username |-> out.username,
                         token |-> out.token, how |-> out.how]
           /\ IF out.cleanup
              THEN procs' = Go([Idle EXCEPT !.pc = "cdel", !.req.tokenString = out.token])
              ELSE UNCHANGED procs
    /\ answer' = NoAnswer
    /\ UNCHANGED <<clients, authCodes, accessTokens, file, now, oauth2Enabled,
                   accessAllowedIPs, rest>>
    /\ UNCHANGED history

(***************************************************************************)
(* The requests of a run.                                                  *)
(***************************************************************************)
ClientInputs == DOMAIN clients
CodeInputs == DOMAIN issued \cup {"bogus"}
RefreshInputs == {minted[t].token.RefreshToken : t \in DOMAIN minted} \cup {"bogus"}
BearerInputs == DOMAIN minted \cup {"static1", "bogus"}

\* the token requests for a code: with the redirect URI of the login and any
\* verifier, with another redirect URI, and one request for each way of
\* failing before the lookup of the code
CodeRequests ==
    {[NoRequest EXCEPT !.code = c, !.clientID = id, !.codeVerifier = v, !.resource = "resA",
                       !.redirectURI = "https://claude.ai/api/mcp/auth_callback"] :
        c \in CodeInputs, id \in ClientInputs, v \in VerifierInputs}
    \cup {[NoRequest EXCEPT !.code = c, !.clientID = "c0", !.resource = "resA",
                            !.redirectURI = "https://evil.example/callback"] :
            c \in DOMAIN authCodes}
    \cup {[NoRequest EXCEPT !.code = c, !.redirectURI = u, !.clientID = id] :
            c \in DOMAIN authCodes,
            u \in {"", "https://claude.ai/api/mcp/auth_callback"}, id \in {"", "cX"}}
    \cup {[NoRequest EXCEPT !.redirectURI = "https://claude.ai/api/mcp/auth_callback",
                            !.clientID = "c0"]}

RefreshRequests ==
    {[NoRequest EXCEPT !.clientID = id, !.refreshToken = t] :
        id \in ClientInputs \cup {"cX"}, t \in RefreshInputs \cup {""}}

HeaderInputs ==
    {<<>>, <<"Bearer ", " ">>, <<"Basic ", "static1">>, <<"Bearer ", " ", "static1", " ">>}
        \cup {<<"Bearer ", t>> : t \in BearerInputs}

\* concurrent requests to the authorization server
Next ==
    \/ Tick
    \/ \E ip \in IPInputs, uris \in RedirectListInputs :
          handleClientRegistration(MaxProcs, ip, uris)
    \/ \E u \in {"alice", "mallory"}, pw \in PasswordInputs, id \in ClientInputs,
          sc \in ScopeInputs, ch \in ChallengeInputs, r \in ResourceInputs :
          handleAuthorizationPOST(u, pw, id, "https://claude.ai/api/mcp/auth_callback", sc,
                                  "xyz", ch, r)
    \/ \E ct \in ContentTypes, req \in CodeRequests :
          handleToken(MaxProcs, ct, "authorization_code", req)
    \/ \E ct \in ContentTypes, req \in RefreshRequests : handleRefreshToken(MaxProcs, ct, req)
    \/ \E ct \in ContentTypes : handleToken(MaxProcs, ct, "password", NoRequest)
    \/ \E g \in Running : handleToken_mint(g)
    \/ \E g \in Running : handleRefreshToken_mint(g)
    \/ \E g \in Running : saveClients_snapshot(g)
    \/ \E g \in Running : saveClients_write(g)
    \/ \E g \in Running : cleanup_delete(g)
    \/ \E t \in BearerInputs : callValidateToken(MaxProcs, t)

Spec == Init /\ [][Next]_vars

\* the well-formed token requests of the persisted client
ClientRequests ==
    {[NoRequest EXCEPT !.code = c, !.clientID = "c0", !.resource = "resA",
                       !.redirectURI = "https://claude.ai/api/mcp/auth_callback"] :
        c \in DOMAIN authCodes}

ClientRefreshRequests ==
    {[NoRequest EXCEPT !.clientID = "c0", !.refreshToken = accessTokens[t].RefreshToken] :
        t \in DOMAIN accessTokens}

\* the client_secret values a request can carry: none, a wrong one, and the
\* secrets the server generated for its clients
SecretInputs == {"", "wrong"} \cup {clients[c].ClientSecret : c \in DOMAIN clients}

WithSecrets(requests) ==
    {[req EXCEPT !.clientSecret = secret] : req \in requests, secret \in SecretInputs}

\* the token endpoint, its requests served one after the other: the user logs
\* in and token requests of either content type and grant arrive, the
\* well-formed ones with and without a client secret
NextToken ==
    \/ Tick
    \/ \E ch \in ChallengeInputs :
          handleAuthorizationPOST("alice", Users["alice"], "c0",
                                  "https://claude.ai/api/mcp/auth_callback", "mcp",
                                  "xyz", ch, "resA")
    \/ \E ct \in ContentTypes, req \in CodeRequests \cup WithSecrets(ClientRequests) :
          handleToken(1, ct, "authorization_code", req)
    \/ \E ct \in ContentTypes, req \in RefreshRequests \cup WithSecrets(ClientRefreshRequests) :
          handleRefreshToken(1, ct, req)
    \/ \E ct \in ContentTypes : handleToken(1, ct, "password", NoRequest)
    \/ \E g \in Running : handleToken_mint(g)
    \/ \E g \in Running : handleRefreshToken_mint(g)
    \/ \E g \in Running : saveClients_snapshot(g)
    \/ \E g \in Running : saveClients_write(g)

SpecToken == Init /\ [][NextToken]_vars

\* the forms the login page posts: the form of a client with state, challenge
\* and resource, and the forms that differ from it in one field (the
\* authorization endpoint does not look the client up)
LoginForm == [clientID |-> "c0", state |-> "st1", codeChallenge |-> "h1", resource |-> "resA"]

LoginForms ==
    {LoginForm, [LoginForm EXCEPT !.clientID = "cX"], [LoginForm EXCEPT !.state = ""],
     [LoginForm EXCEPT !.codeChallenge = ""], [LoginForm EXCEPT !.resource = ""]}

\* a configured user and a name that is not configured
LoginUsers == {"alice", "mallory"}

\* the login form: logins with right and wrong credentials, and the client
\* exchanges the codes
NextLogin ==
    \/ \E u \in LoginUsers, pw \in PasswordInputs, form \in LoginForms :
          handleAuthorizationPOST(u, pw, form.clientID,
                                  "https://claude.ai/api/mcp/auth_callback", "mcp",
                                  form.state, form.codeChallenge, form.resource)
    \/ \E req \in ClientRequests :
          handleToken(1, "application/x-www-form-urlencoded", "authorization_code", req)
    \/ \E g \in Running : handleToken_mint(g)
    \/ \E g \in Running : saveClients_snapshot(g)
    \/ \E g \in Running : saveClients_write(g)

SpecLogin == Init /\ [][NextLogin]_vars

\* requests served one after the other: requests with any header arrive on
\* the routes of the proxied servers and, where OAuth2 is enabled and its
\* endpoints exist, the users log in and the client exchanges codes and
\* refreshes tokens
NextHTTP ==
    \/ Tick
    \/ /\ oauth2Enabled
       /\ \/ \E u \in {"alice", "bob"} :
                handleAuthorizationPOST(u, Users[u], "c0",
                                        "https://claude.ai/api/mcp/auth_callback", "mcp",
                                        "xyz", "", "resA")
          \/ \E req \in ClientRequests :
                handleToken(1, "application/x-www-form-urlencoded", "authorization_code", req)
          \/ \E req \in ClientRefreshRequests :
                handleRefreshToken(1, "application/x-www-form-urlencoded", req)
    \/ \E g \in Running : handleToken_mint(g)
    \/ \E g \in Running : handleRefreshToken_mint(g)
    \/ \E g \in Running : saveClients_snapshot(g)
    \/ \E g \in Running : saveClients_write(g)
    \/ \E g \in Running : cleanup_delete(g)
    \/ \E name \in DOMAIN McpServers, header \in HeaderInputs : ServeRoute(1, name, header)

SpecHTTP == InitHTTP /\ [][NextHTTP]_vars

\* the server runs, stops at any moment and is started again: clients
\* register, alice logs in, the client exchanges her codes
NextRestart ==
    \/ Tick
    \/ handleClientRegistration(MaxProcs, "10.0.0.1",
                                <<"https://claude.ai/api/mcp/auth_callback">>)
    \/ handleAuthorizationPOST("alice", "pwA", "c0", "https://claude.ai/api/mcp/auth_callback",
                               "mcp", "xyz", "", "resA")
    \/ \E req \in ClientRequests :
          handleToken(MaxProcs, "application/x-www-form-urlencoded", "authorization_code", req)
    \/ \E g \in Running : handleToken_mint(g)
    \/ \E g \in Running : saveClients_snapshot(g)
    \/ \E g \in Running : saveClients_write(g)
    \/ Restart

SpecRestart == Init /\ [][NextRestart]_vars

\* an earlier run has left the file with the client and a pair minted for it
\* that has not expired
InitPairs ==
    /\ StartFrom(Marshal([Clients |-> ("c0" :> PersistedClient),
                          AccessTokens |-> ("at0" :> NewToken(0, "c0", "mcp", "resA", 0))]))
    /\ oauth2Enabled = TRUE
    /\ accessAllowedIPs = AllowedIPs

\* concurrent logins, exchanges and refreshes of the client
NextPairs ==
    \/ Tick
    \/ handleAuthorizationPOST("alice", "pwA", "c0", "https://claude.ai/api/mcp/auth_callback",
                               "mcp", "xyz", "", "resA")
    \/ \E req \in ClientRequests :
          handleToken(MaxProcs, "application/x-www-form-urlencoded", "authorization_code", req)
    \/ \E req \in ClientRefreshRequests :
          handleRefreshToken(MaxProcs, "application/x-www-form-urlencoded", req)
    \/ \E g \in Running : handleToken_mint(g)
    \/ \E g \in Running : handleRefreshToken_mint(g)
    \/ \E g \in Running : saveClients_snapshot(g)
    \/ \E g \in Running : saveClients_write(g)

SpecPairs == InitPairs /\ [][NextPairs]_vars

\* the access tokens a run can name: the token of the persisted pair and the
\* tokens generated since
TokenNames == {generateRandomString("at", n) : n \in 0..MaxObjects}

\* lazy expiry: time passes, the client refreshes its pairs, and requests
\* present the stored tokens and an unknown one to ValidateToken
NextExpiry ==
    \/ Tick
    \/ \E t \in TokenNames \cup {"bogus"} : callValidateToken(MaxProcs, t)
    \/ \E g \in Running : cleanup_delete(g)
    \/ \E req \in ClientRefreshRequests :
          handleRefreshToken(MaxProcs, "application/x-www-form-urlencoded", req)
    \/ \E g \in Running : handleRefreshToken_mint(g)
    \/ \E g \in Running : saveClients_snapshot(g)
    \/ \E g \in Running : saveClients_write(g)

SpecExpiry == InitPairs /\ [][NextExpiry]_vars

\* a step of a cleanup goroutine started for tokenString
CleanupStep(tokenString) ==
    \E g \in Running :
        /\ g.req.tokenString = tokenString
        /\ cleanup_delete(g) \/ saveClients_snapshot(g) \/ saveClients_write(g)

\* the scheduler runs every goroutine that can take a step: the cleanup
\* goroutines are never blocked for good, the lock being released by every
\* holder
ExpiryFairness == \A t \in TokenNames : WF_vars(CleanupStep(t))

SpecExpiryFair == InitPairs /\ [][NextExpiry]_vars /\ ExpiryFairness

\* the query of GET /oauth/authorize: with and without client_id, redirect_uri
\* and response_type, for the registered client and for an unregistered one
AuthorizeQueries ==
    [clientID : {"", "c0", "cX"},
     redirectURI : {"", "https://claude.ai/api/mcp/auth_callback"},
     responseType : {"", "code", "token"},
     state : {"", "st1"}, codeChallenge : ChallengeInputs, resource : {"", "resA"}]

\* the authorization endpoint: the client sends the user to the login page,
\* the user logs in, the client exchanges the codes
NextAuthorize ==
    \/ \E q \in AuthorizeQueries :
          handleAuthorizationGET(q.clientID, q.redirectURI, q.responseType, "mcp", q.state,
                                 q.codeChallenge, q.resource)
    \/ \E u \in LoginUsers :
          handleAuthorizationPOST(u, "pwA", "c0", "https://claude.ai/api/mcp/auth_callback",
                                  "mcp", "st1", "h1", "resA")
    \/ \E req \in ClientRequests :
          handleToken(1, "application/x-www-form-urlencoded", "authorization_code", req)
    \/ \E g \in Running : handleToken_mint(g)
    \/ \E g \in Running : saveClients_snapshot(g)
    \/ \E g \in Running : saveClients_write(g)

SpecAuthorize == Init /\ [][NextAuthorize]_vars

\* the token requests of an exchange: for each stored code and for a code
\* that is not stored, the requests of the client and of an unregistered
\* client with the registered redirect URI or another one and either
\* verifier, and the requests that lack the client, the redirect URI or the
\* code
GrantRequests ==
    {[NoRequest EXCEPT !.code = c, !.clientID = id, !.redirectURI = u, !.resource = "resA",
                       !.codeVerifier = v] :
        c \in DOMAIN authCodes \cup {"bogus"}, id \in {"c0", "cX"},
        u \in {"https://claude.ai/api/mcp/auth_callback", "https://evil.example/callback"},
        v \in {"v1", "v2"}}
    \cup {[NoRequest EXCEPT !.code = c, !.clientID = id, !.redirectURI = u] :
            c \in DOMAIN authCodes, id \in {"", "c0"},
            u \in {"", "https://claude.ai/api/mcp/auth_callback"}}
    \cup {[NoRequest EXCEPT !.clientID = "c0",
                            !.redirectURI = "https://claude.ai/api/mcp/auth_callback"]}

\* the forms the login page posts: the form of the client with a challenge,
\* and a form that names a redirect_uri the client has not registered
GrantForms ==
    {[clientID |-> "c0", redirectURI |-> "https://claude.ai/api/mcp/auth_callback",
      codeChallenge |-> "h1"],
     [clientID |-> "c0", redirectURI |-> "https://evil.example/callback", codeChallenge |-> ""]}

\* the code grant, its requests served one after the other: alice logs in
\* through any form, codes expire, and token requests of every kind arrive
NextGrant ==
    \/ Tick
    \/ \E form \in GrantForms :
          handleAuthorizationPOST("alice", "pwA", form.clientID, form.redirectURI, "mcp",
                                  "xyz", form.codeChallenge, "resA")
    \/ \E req \in GrantRequests :
          handleToken(1, "application/x-www-form-urlencoded", "authorization_code", req)
    \/ \E req \in GrantRequests :
          /\ req.codeVerifier = "v1"
          /\ handleToken(1, "application/x-www-form-urlencoded", "password", req)
    \/ \E g \in Running : handleToken_mint(g)
    \/ \E g \in Running : saveClients_snapshot(g)
    \/ \E g \in Running : saveClients_write(g)

SpecGrant == Init /\ [][NextGrant]_vars

(***************************************************************************)
(* Chained handlers, served step by step.                                  *)
(***************************************************************************)
\* how many middlewares are chained
MaxChain == 3

\* a middleware that appends to callOrder before and after it calls next
Tracer(name) == [kind |-> "trace", name |-> name, tokens |-> <<>>]

\* newAuthMiddleware: the middleware for the tokens
newAuthMiddleware(tokens) == [kind |-> "auth", name |-> "auth", tokens |-> tokens]

\* an auth middleware that takes the scheme in lower case too
AuthorizeAnyCase(tokens, header) ==
    IF Len(tokens) # 0
    THEN LET token == Flatten(TrimSpace(TrimPrefix(TrimPrefix(header, "Bearer "), "bearer ")))
         IN  IF token = "" THEN 401 ELSE IF token \notin Range(tokens) THEN 401 ELSE 0
    ELSE 0

\* the handler of newAuthMiddleware on a request with the Authorization header:
\* the status it answers, or 0 when it calls next
Authorize(tokens, header) ==
    IF Len(tokens) # 0
    THEN LET token == Flatten(TrimSpace(TrimPrefix(header, "Bearer ")))
         IN  IF token = "" THEN 401 ELSE IF token \notin Range(tokens) THEN 401 ELSE 0
    ELSE 0

\* the middlewares that are chained
MiddlewareInputs ==
    {Tracer("m1"), Tracer("m2"), Tracer("m3"), newAuthMiddleware(<<>>),
     newAuthMiddleware(<<"static1", "static2">>), newAuthMiddleware(<<"">>)}

\* the argument lists of chainMiddleware
ChainInputs ==
    UNION {[1..n -> MiddlewareInputs] : n \in 0..MaxChain}

\* the Authorization headers of the requests
AuthorizationInputs ==
    {<<>>, <<"Bearer ">>, <<"Bearer ", " ">>, <<"static1">>, <<"Bearer ", "static1">>,
     <<"Bearer ", "static2">>, <<"Bearer ", "bogus">>, <<"bearer ", "static1">>,
     <<"Bearer", "static1">>, <<"Bearer ", " ", "static1", " ">>,
     <<" ", "Bearer ", "static1">>, <<"Bearer ", "Bearer ", "static1">>}

ChainFrame == UNCHANGED <<oauth, rotator, rotation, allowed, templates>>

\* chained := chainMiddleware(handler, middlewares...)
Chain(middlewares) ==
    /\ chain = NoChain
    /\ chain' = [NoChain EXCEPT !.middlewares = middlewares,
                                !.handler = chainMiddleware(<<>>, middlewares)]
    /\ ChainFrame

\* chained.ServeHTTP(rec, req)
ServeHTTP(header) ==
    /\ chain.phase = ""
    /\ chain' = [chain EXCEPT !.header = header, !.phase = "before"]
    /\ ChainFrame

\* the request enters the next middleware, which calls next or answers
Enter ==
    /\ chain.phase = "before"
    /\ chain.depth < Len(chain.handler)
    /\ LET mw == chain.handler[chain.depth + 1]
       IN  IF mw.kind = "trace"
           THEN chain' = [chain EXCEPT !.depth = @ + 1,
                                       !.callOrder = Append(@, mw.name \o "-before")]
           ELSE IF Authorize(mw.tokens, chain.header) = 0
                THEN chain' = [chain EXCEPT !.depth = @ + 1]
                ELSE chain' = [chain EXCEPT !.status = Authorize(mw.tokens, chain.header),
                                            !.phase = IF chain.depth = 0 THEN "done"
                                                      ELSE "after"]
    /\ ChainFrame

\* the request reaches the handler inside the middlewares
Handle ==
    /\ chain.phase = "before"
    /\ chain.depth = Len(chain.handler)
    /\ chain' = [chain EXCEPT !.callOrder = Append(@, "handler"), !.status = 200,
                              !.phase = IF chain.depth = 0 THEN "done" ELSE "after"]
    /\ ChainFrame

\* next.ServeHTTP returns to the middleware that called it
Leave ==
    /\ chain.phase = "after"
    /\ LET mw == chain.handler[chain.depth]
       IN  chain' = [chain EXCEPT
              !.depth = @ - 1,
              !.callOrder = IF mw.kind = "trace" THEN Append(@, mw.name \o "-after") ELSE @,
              !.phase = IF chain.depth = 1 THEN "done" ELSE "after"]
    /\ ChainFrame

\* a handler is chained and serves a request
NextChain ==
    \/ \E middlewares \in ChainInputs : Chain(middlewares)
    \/ \E header \in AuthorizationInputs : ServeHTTP(header)
    \/ Enter
    \/ Handle
    \/ Leave

SpecChain == Init /\ [][NextChain]_vars

\* the user filters of the configuration: none, and every mode with every list
FilterInputs ==
    {NoFilter} \cup
    {[nil |-> FALSE, Mode |-> mode, List |-> list] :
        mode \in {"allow", "block", "", "deny"},
        list \in {<<>>, <<"alice">>, <<"bob">>, <<"alice", "bob">>, <<"bob", "alice">>,
                  <<"carol">>}}

\* the usernames of the requests
UsernameInputs == {"", "alice", "bob", "carol", "Alice"}

\* ufc.IsUserAllowed(username) is called
CallIsUserAllowed(ufc, username) ==
    /\ allowed' = [ufc |-> ufc, username |-> username, called |-> TRUE,
                   result |-> IsUserAllowed(ufc, username)]
    /\ UNCHANGED <<oauth, rotator, rotation, chain, templates>>

NextFilter == \E ufc \in FilterInputs, username \in UsernameInputs : CallIsUserAllowed(ufc, username)

SpecFilter == Init /\ [][NextFilter]_vars

\* the states of the template directory: missing, holding a file that does
\* not parse, holding one of three versions of the two pages
DirInputs == {"absent", "broken", "v1", "v2", "v3"}

\* the server starts with the template directory in any of its states
InitTemplates ==
    /\ \E dir \in DirInputs :
          NewOAuthServer(Marshal([Clients |-> ("c0" :> PersistedClient),
                                  AccessTokens |-> Empty]), dir)
    /\ oauth2Enabled = TRUE
    /\ accessAllowedIPs = AllowedIPs

\* the files of the template directory are edited, broken or removed
EditTemplates(dir) ==
    /\ dir # templates.dir
    /\ templates' = [templates EXCEPT !.dir = dir]
    /\ UNCHANGED <<oauth, rotator, rotation, chain, allowed>>

\* showAuthorizationPage and showSuccessPage: s.templates.ExecuteTemplate
ExecuteTemplate(name) ==
    /\ templates' = [templates EXCEPT !.page = name, !.from = templates.parsed,
                                      !.status = 200, !.seen = templates.dir]
    /\ UNCHANGED <<oauth, rotator, rotation, chain, allowed>>

\* page requests, and changes of the template directory between them
NextTemplates ==
    \/ \E dir \in DirInputs : EditTemplates(dir)
    \/ \E name \in {"authorize.html", "success.html"} : ExecuteTemplate(name)

SpecTemplates == InitTemplates /\ [][NextTemplates]_vars

\* the tokens callers present: the persisted one and one the server never issued
PresentedTokens == {"at0", "at9"}

\* the operations run concurrently on the server that has loaded a pair
NextLock ==
    \/ LockTick
    \/ \E op \in Operations, tokenString \in PresentedTokens :
          invoke(Callers, op, tokenString)
    \/ \E i \in Slots : Run(i)

SpecLock == InitPairs /\ [][NextLock]_vars

\* the same with one ValidateToken, and so one cleanup goroutine, at a time
NextLockFair ==
    \/ LockTick
    \/ \E op \in Operations, tokenString \in PresentedTokens : invoke({1}, op, tokenString)
    \/ \E i \in Slots : Run(i)

\* every goroutine that can take a step is scheduled again, and a goroutine
\* that calls Lock gets the writers' mutex when it is released again and again
Fairness == \A i \in Slots : WF_vars(Run(i)) /\ SF_vars(Acquire(i))

SpecLockFair == InitPairs /\ [][NextLockFair]_vars /\ Fairness

\* the token lists a rotator is made for
TokenLists == {<<>>, <<"tok_a">>, <<"tok_a", "tok_b">>, <<"tok_a", "tok_b", "tok_c">>}

\* the statuses Fail is called with
Statuses == {401, 403}

\* the indices Fail and Success are called with: those of the tokens, and one
\* below and one above
CallIndices == -1..Len(rotator.tokens)

InRange(idx) == idx >= 0 /\ idx < Len(rotator.fails)

\* the rotator is made by NewTokenRotator
NewRotator(mode, tokens) ==
    /\ rotator = NoRotator
    /\ NewTokenRotator(mode, tokens).err = ""
    /\ rotator' = NewTokenRotator(mode, tokens).rotator
    /\ rotation' = [NoRotation EXCEPT !.returned = [i \in 1..Len(tokens) |-> 0]]
    /\ UNCHANGED <<oauth, chain, allowed, templates>>

\* the rotator is made by one of the two constructors, for an empty list too
NewRotatorOf(mode, tokens) ==
    /\ rotator = NoRotator
    /\ rotator' = IF mode = "round-robin" THEN NewRoundRobinRotator(tokens)
                  ELSE NewOnFirstFailedRotator(tokens)
    /\ rotation' = [NoRotation EXCEPT !.returned = [i \in 1..Len(tokens) |-> 0]]
    /\ UNCHANGED <<oauth, chain, allowed, templates>>

\* a goroutine calls Next; the call is one step, under rotatorState.mu
CallNext ==
    /\ rotator # NoRotator
    /\ rotation.calls < MaxCalls
    /\ \E res \in {rotatorNext(rotator)} :
          /\ rotator' = res.r
          /\ rotation' = [rotation EXCEPT
                !.calls = @ + 1,
                !.nexts = @ + 1,
                !.granted = IF res.out.err = "" THEN @ + 1 ELSE @,
                !.returned = IF res.out.err = "" THEN [@ EXCEPT ![res.out.idx + 1] = @ + 1]
                             ELSE @,
                !.last = "Next",
                !.arg = -1,
                !.out = res.out,
                !.lastNext = res.out,
                !.failed = FALSE,
                !.succeeded = FALSE,
                !.failedCurrent = -1,
                !.after = IF rotation.failedCurrent # -1 THEN rotation.failedCurrent ELSE @,
                !.repeated = rotation.nexts > 0 /\ ~rotation.failed]
    /\ UNCHANGED <<oauth, chain, allowed, templates>>

\* a goroutine calls Fail
CallFail(idx, status) ==
    /\ rotator # NoRotator
    /\ rotation.calls < MaxCalls
    /\ rotator' = rotatorFail(rotator, idx, status)
    /\ rotation' = [rotation EXCEPT
          !.calls = @ + 1,
          !.recorded = IF InRange(idx) THEN Append(@, status) ELSE @,
          !.last = "Fail",
          !.arg = idx,
          !.out = NoResult,
          !.failed = @ \/ InRange(idx),
          !.failedCurrent = IF ~InRange(idx) THEN @ ELSE IF idx = rotator.idx THEN idx ELSE -1]
    /\ UNCHANGED <<oauth, chain, allowed, templates>>

\* a goroutine calls Success
CallSuccess(idx) ==
    /\ rotator # NoRotator
    /\ rotation.calls < MaxCalls
    /\ rotator' = rotatorSuccess(rotator, idx)
    /\ rotation' = [rotation EXCEPT
          !.calls = @ + 1,
          !.last = "Success",
          !.arg = idx,
          !.out = NoResult,
          !.succeeded = @ \/ InRange(idx)]
    /\ UNCHANGED <<oauth, chain, allowed, templates>>

\* a rotator is made and called
NextRotator ==
    \/ \E mode \in {"round-robin", "on-first-failed"}, tokens \in TokenLists :
          NewRotator(mode, tokens)
    \/ \E mode \in {"round-robin", "on-first-failed"}, tokens \in TokenLists :
          NewRotatorOf(mode, tokens)
    \/ CallNext
    \/ \E idx \in CallIndices, status \in Statuses : CallFail(idx, status)
    \/ \E idx \in CallIndices : CallSuccess(idx)

SpecRotator == Init /\ [][NextRotator]_vars

\* a Next has returned the token at idx
Returned(idx) == InRange(idx) /\ rotation.returned[idx + 1] > 0

\* an on-first-failed rotator whose callers pass to Fail and to Success only
\* the index of a token that a Next has returned to one of them
NextProtocol ==
    \/ \E tokens \in TokenLists : NewRotator("on-first-failed", tokens)
    \/ CallNext
    \/ \E idx \in CallIndices, status \in Statuses : Returned(idx) /\ CallFail(idx, status)
    \/ \E idx \in CallIndices : Returned(idx) /\ CallSuccess(idx)

SpecProtocol == Init /\ [][NextProtocol]_vars

\* concurrent registration requests, from any address and with any list of
\* redirect URIs
NextRegister ==
    \/ \E r \in AddressInputs, uris \in RedirectListInputs :
          handleClientRegistration(MaxProcs, getClientIP(r), uris)
    \/ \E g \in Running : saveClients_snapshot(g)
    \/ \E g \in Running : saveClients_write(g)

SpecRegister == InitRegister /\ [][NextRegister]_vars

(***************************************************************************)
(* Properties of the token endpoint and of ValidateToken.                  *)
(***************************************************************************)
\* the exchanges of code that have passed the checks: the pairs minted from
\* it and the requests on their way to minting one
MintedFrom(code) == {t \in DOMAIN minted : minted[t].code = code}
MintingFrom(code) == {g \in Running : g.pc = "mint" /\ g.auth.Code = code}

\* the token endpoint has just answered a request for key that got as far
\* as the lookup
Answered(grant, key) == answer.reached /\ answer.grant = grant /\ answer.key = key

\* C1: authorization codes are single-use.  Of all the exchanges naming an
\* issued code, in any interleaving, at most one passes the lookup and mints
\* a pair; an exchange that reaches the lookup is answered with the pair
\* minted from this code or with invalid_grant.
C1_CodeSingleUse ==
    \A code \in DOMAIN issued :
        /\ Cardinality(MintedFrom(code)) + Cardinality(MintingFrom(code)) <= 1
        /\ Answered("authorization_code", code) =>
              \/ answer.error = "invalid_grant" /\ answer.token = NoToken
              \/ /\ answer.error = ""
                 /\ answer.token.Token \in MintedFrom(code)

\* a second exchange of a code competes with the one that has passed the
\* lookup and is about to mint, and is answered invalid_grant
C1_Witness ==
    \E code \in DOMAIN issued :
        /\ MintingFrom(code) # {}
        /\ Answered("authorization_code", code)
        /\ answer.error = "invalid_grant"
        /\ answer.cause = "absent"

\* C2: PKCE is enforced.  Every pair minted from a code that carries a PKCE
\* challenge was requested with a code_verifier whose S256 hash equals the
\* challenge.
C2_PKCEEnforced ==
    \A t \in DOMAIN minted :
        (minted[t].code # "" /\ minted[t].codeChallenge # "") =>
            S256(minted[t].codeVerifier) = minted[t].codeChallenge

\* C3: an exchange that fails PKCE verification is answered invalid_grant and
\* leaves the code consumed.  The code is gone from the map, no pair is or
\* will be minted from it, and every exchange naming it that reaches the
\* lookup, the failed one and any later one, is answered invalid_grant.
C3_PKCEFailureConsumes ==
    \A code \in pkceFailed :
        /\ code \notin DOMAIN authCodes
        /\ MintedFrom(code) = {}
        /\ MintingFrom(code) = {}
        /\ Answered("authorization_code", code) =>
              answer.error = "invalid_grant" /\ answer.token = NoToken

\* the exchange of a code has failed PKCE verification and a later exchange
\* naming the code has found it gone
C3_Witness ==
    \E code \in pkceFailed :
        /\ Answered("authorization_code", code)
        /\ answer.error = "invalid_grant"
        /\ answer.cause = "absent"

\* the refreshes with refreshToken that have deleted a pair: the pairs minted
\* from it and the requests on their way to minting one or to being refused
RefreshedFrom(refreshToken) == {t \in DOMAIN minted : minted[t].parent = refreshToken}
RefreshingFrom(refreshToken) ==
    {g \in Running : (g.pc = "rmint" \/ g.cont = "rcheck") /\ g.old.RefreshToken = refreshToken}

\* the stored pairs that carry the refresh token
Stored(refreshToken) == {k \in DOMAIN accessTokens : accessTokens[k].RefreshToken = refreshToken}

\* C4: refresh tokens are single-use.  Once a refresh request has taken the
\* pair of refresh token r, no stored pair carries r; at most one pair is
\* ever minted from r; and a refresh request presenting r that reaches the
\* lookup is answered with the pair minted from r or with invalid_grant.
C4_RefreshSingleUse ==
    \A t \in DOMAIN minted :
        LET r == minted[t].token.RefreshToken
        IN  /\ Cardinality(RefreshedFrom(r)) + Cardinality(RefreshingFrom(r)) <= 1
            /\ r \in consumed => Stored(r) = {}
            /\ Answered("refresh_token", r) =>
                  \/ answer.error = "invalid_grant" /\ answer.token = NoToken
                  \/ /\ answer.error = ""
                     /\ answer.token.Token \in RefreshedFrom(r)

\* a refresh has succeeded with r, and a later refresh request presenting r
\* has been answered invalid_grant
C4_Witness ==
    \E t \in DOMAIN minted :
        LET r == minted[t].token.RefreshToken
        IN  /\ RefreshedFrom(r) # {}
            /\ Answered("refresh_token", r)
            /\ answer.error = "invalid_grant"
            /\ answer.cause = "absent"

\* C5: for every access token whose expiresAt has passed, ValidateToken
\* returns (nil, false), whether the entry is still stored, the cleanup has
\* removed it, or a snapshot has been written.
C5_ExpiredTokenInvalid ==
    \A t \in DOMAIN minted :
        now > minted[t].token.ExpiresAt =>
            /\ ~ValidateToken(t).valid
            /\ ValidateToken(t).token = NoToken

\* a token has expired and its entry is still stored, while the cleanup that
\* an earlier ValidateToken started for it is running
C5_Witness ==
    \E t \in DOMAIN minted :
        /\ now > minted[t].token.ExpiresAt
        /\ t \in DOMAIN accessTokens
        /\ \E g \in Running : g.pc = "cdel" /\ g.req.tokenString = t

\* C6: from the moment a pair is minted, ValidateToken of its access token
\* returns the pair and true at every instant up to expiresAt, until a
\* refresh request takes the pair's refresh token.
C6_TokenStaysValid ==
    \A t \in DOMAIN minted :
        (now <= minted[t].token.ExpiresAt /\ minted[t].token.RefreshToken \notin consumed) =>
            /\ ValidateToken(t).valid
            /\ ValidateToken(t).token = minted[t].token

\* a pair minted by a refresh is valid while the cleanup of the expired pair
\* it replaced is running
C6_Witness ==
    \E t \in DOMAIN minted :
        /\ minted[t].parent # ""
        /\ now <= minted[t].token.ExpiresAt
        /\ ValidateToken(t).valid
        /\ \E g \in Running : /\ g.pc \in {"cdel", "snap", "write"}
                              /\ g.req.tokenString \in DOMAIN minted \ {t}

(***************************************************************************)
(* Properties of the persisted file.                                       *)
(***************************************************************************)
\* C10: when no request is in flight, every mutator's saveClients has written
\* and the persisted clients and accessTokens equal the in-memory maps.
C10_FileEqualsMemory ==
    procs = EmptyBag =>
        (Unmarshal(file).Clients = clients /\ Unmarshal(file).AccessTokens = accessTokens)

(***************************************************************************)
(* Properties of the routes of the proxied servers.                        *)
(***************************************************************************)
\* the route runs the combined auth middleware
Protected(name) == "combinedAuth" \in Range(Middlewares(name))

\* the header carries the Bearer scheme; the token string after it
IsBearer(header) == header # <<>> /\ Head(header) = "Bearer "
BearerToken(header) == IF IsBearer(header) THEN Flatten(TrimSpace(Tail(header))) ELSE ""

\* the token is one of the route's predefined tokens; it is an OAuth access
\* token that ValidateToken accepts
Predefined(name, t) == t # "" /\ t \in Range(McpServers[name].AuthTokens)
OAuthValid(t) == t # "" /\ oauth2Enabled /\ ValidateToken(t).valid

RECURSIVE Owner(_)
\* the username whose password was verified at the login that issued the code
\* the pair descends from, directly or through refreshes
Owner(t) ==
    IF minted[t].code # "" THEN issued[minted[t].code].username
    ELSE Owner(CHOOSE k \in DOMAIN minted : minted[k].token.RefreshToken = minted[t].parent)

\* C7: on a route protected by the combined auth middleware the backend
\* handler is invoked only for a request whose header carries Bearer and a
\* token that is predefined for the route or that ValidateToken accepts; every
\* other request is answered 401 and does not reach the backend handler.
C7_OnlyAuthenticatedReachBackend ==
    (served.route # "" /\ Protected(served.route)) =>
        LET t == BearerToken(served.header)
            authenticated == Predefined(served.route, t) \/ OAuthValid(t)
        IN  /\ served.backend => authenticated
            /\ ~authenticated => (served.status = 401 /\ ~served.backend)

\* a request with an expired OAuth access token has been answered 401
C7_Witness ==
    /\ served.route # ""
    /\ Protected(served.route)
    /\ BearerToken(served.header) \in DOMAIN accessTokens
    /\ now > accessTokens[BearerToken(served.header)].ExpiresAt
    /\ served.status = 401
    /\ ~served.backend

\* C8: when ValidateToken succeeds for an OAuth access token, the username
\* attached to the request context is that of the login the token descends
\* from.
C8_UsernameIsLoginUser ==
    (served.backend /\ served.how = "oauth") => served.username = Owner(served.token)

\* C9: on a route of a server with a userFilter, a request authenticated by
\* the OAuth access token of a user the filter does not allow is answered 403
\* and does not reach the backend handler.
C9_DeniedUserForbidden ==
    LET t == BearerToken(served.header)
    IN  (/\ served.route # ""
         /\ ~McpServers[served.route].UserFilter.nil
         /\ ~Predefined(served.route, t)
         /\ OAuthValid(t)
         /\ ~IsUserAllowed(McpServers[served.route].UserFilter, Owner(t)))
        => (served.status = 403 /\ ~served.backend)

(***************************************************************************)
(* Properties of loadClients.                                              *)
(***************************************************************************)
\* C11: loading a file that saveClients wrote restores exactly the saved
\* clients, and restores a saved token if and only if its ExpiresAt has not
\* passed at the instant of the load, that is, if and only if ValidateToken
\* would still accept it at that instant; and the encoding of a snapshot
\* decodes to the snapshot.
C11_LoadRestoresUnexpired ==
    LET saved == Unmarshal(loaded.text)
    IN  /\ \A g \in Running : g.pc = "write" => Unmarshal(Marshal(g.snap)) = g.snap
        /\ loaded.Clients = saved.Clients
        /\ \A k \in DOMAIN loaded.AccessTokens :
              k \in DOMAIN saved.AccessTokens /\ loaded.AccessTokens[k] = saved.AccessTokens[k]
        /\ \A k \in DOMAIN saved.AccessTokens :
              k \in DOMAIN loaded.AccessTokens <=> ~(loaded.at > saved.AccessTokens[k].ExpiresAt)

(***************************************************************************)
(* Properties of the registration endpoint.                                *)
(***************************************************************************)
\* the list is not empty and every URI in it is on the callback allowlist
Allowlisted(redirectURIs) ==
    /\ Len(redirectURIs) > 0
    /\ \A i \in 1..Len(redirectURIs) : redirectURIs[i] \in Range(allowedCallbackURLs)

\* the IP allowlist lets the address register
IPPasses(clientIP) ==
    Len(accessAllowedIPs) = 0 \/ clientIP \in Range(accessAllowedIPs)

\* C12: registration stores a client only if its redirect_uris list is not
\* empty and every URI in it is on the callback allowlist; a request (that the
\* IP allowlist lets through) with any other list is answered
\* invalid_redirect_uri with status 400 and leaves the clients map and the
\* persisted file unchanged.  So every registered client has only allowlisted
\* redirect URIs.
C12_OnlyAllowlistedRedirects ==
    /\ [](\A c \in DOMAIN clients : Allowlisted(clients[c].RedirectURIs))
    /\ []((answer.grant = "register" /\ IPPasses(answer.ip)) =>
             IF Allowlisted(answer.uris)
             THEN /\ answer.error = "" /\ answer.status = 201
                  /\ answer.key \in DOMAIN clients
                  /\ clients[answer.key].RedirectURIs = answer.uris
             ELSE answer.error = "invalid_redirect_uri" /\ answer.status = 400)
    /\ [][(answer'.grant = "register" /\ answer'.error # "") =>
             (clients' = clients /\ file' = file)]_vars

\* a list with an allowlisted and a foreign URI has been refused after
\* another registration has stored a client
C12_Witness ==
    /\ answer.grant = "register"
    /\ answer.error = "invalid_redirect_uri"
    /\ Len(answer.uris) = 2
    /\ Cardinality(DOMAIN clients) > 1

\* C13: with a non-empty allowedIPs, a registration request whose resolved
\* client IP is not a member of the list is answered access_denied with status
\* 403 and creates no client: the refusal leaves the clients map unchanged and
\* every client added to the map was added for an address the list lets
\* through.  With an empty allowedIPs no registration is answered access_denied.
C13_IPAllowlistEnforced ==
    /\ []((/\ answer.grant = "register"
           /\ Len(accessAllowedIPs) > 0
           /\ answer.ip \notin Range(accessAllowedIPs)) =>
             (answer.error = "access_denied" /\ answer.status = 403))
    /\ []((answer.grant = "register" /\ Len(accessAllowedIPs) = 0) =>
             answer.error # "access_denied")
    /\ [][(answer'.grant = "register" /\ answer'.error = "access_denied") =>
             clients' = clients]_vars
    /\ [][\A c \in DOMAIN clients' \ DOMAIN clients :
             \E g \in Running' : g.reg.clientID = c /\ IPPasses(g.reg.clientIP)]_vars

\* a request from an address outside a non-empty allowlist has been refused
C13_Witness ==
    /\ accessAllowedIPs # <<>>
    /\ answer.grant = "register"
    /\ answer.ip = "203.0.113.9"
    /\ answer.error = "access_denied"
    /\ Allowlisted(answer.uris)

(***************************************************************************)
(* Properties of the token endpoint.                                       *)
(***************************************************************************)
\* C14: a refresh request deletes the pair only on a match, that is when the
\* pair's ClientID is the client_id of the request: every refresh request
\* that has deleted a pair is a request of the pair's client, and after the
\* answer to a request of another client the pair is still stored.
C14_RefreshDeletesOnlyOnMatch ==
    /\ \A g \in Running : g.cont = "rcheck" => g.old.ClientID = g.req.clientID
    /\ (answer.grant = "refresh_token" /\ answer.cause = "mismatch") =>
           Stored(answer.key) # {}

\* C15: generated client secrets are validated.  A token request that is
\* about to mint a pair for client_id c, from a code or from a refresh token,
\* has presented the client secret generated for c at registration.
C15_ClientSecretValidated ==
    \A g \in Running :
        g.pc \in {"mint", "rmint"} =>
            /\ g.req.clientID \in DOMAIN clients
            /\ g.req.clientSecret = clients[g.req.clientID].ClientSecret

\* C16: the outcome of a token request (the answer and the effect on
\* authCodes and accessTokens) does not depend on the encoding of its body:
\* every step the endpoint takes for a request sent as JSON is a step it takes
\* for the same request sent as a form, and conversely, for both grants.
C16_BodyEncodingTransparent ==
    [][\A req \in CodeRequests \cup RefreshRequests :
          /\ handleToken(1, "application/json", "authorization_code", req)
                <=> handleToken(1, "application/x-www-form-urlencoded",
                                "authorization_code", req)
          /\ handleRefreshToken(1, "application/json", req)
                <=> handleRefreshToken(1, "application/x-www-form-urlencoded", req)]_vars

\* the values no log line may contain: the passwords of the users, the
\* secrets of the clients, the access and refresh tokens minted so far and
\* the code_verifier of the request
Sensitive(req) ==
    (Range([i \in 1..2 |-> Users[<<"alice", "bob">>[i]]])
        \cup {clients[c].ClientSecret : c \in DOMAIN clients}
        \cup DOMAIN minted
        \cup {minted[t].token.RefreshToken : t \in DOMAIN minted}
        \cup {req.codeVerifier}) \ {""}

\* C17: no log line of an OAuth handler contains a password, a client
\* secret, an access token, a refresh token or the code_verifier of a token
\* request: whenever the login handler or the token endpoint takes a step for
\* a request, none of the values its log lines contain is one of these.
C17_NoSecretInLogs ==
    [][/\ \A ch \in ChallengeInputs :
             handleAuthorizationPOST("alice", Users["alice"], "c0",
                                     "https://claude.ai/api/mcp/auth_callback", "mcp",
                                     "xyz", ch, "resA")
                => LoginLog("alice", "c0", DOMAIN authCodes' \ DOMAIN authCodes)
                       \cap Sensitive(NoRequest) = {}
       /\ \A ct \in ContentTypes, req \in CodeRequests \cup WithSecrets(ClientRequests) :
             handleToken(1, ct, "authorization_code", req)
                => TokenLog(ct, "authorization_code", req) \cap Sensitive(req) = {}
       /\ \A ct \in ContentTypes,
             req \in RefreshRequests \cup WithSecrets(ClientRefreshRequests) :
             handleRefreshToken(1, ct, req)
                => TokenLog(ct, "refresh_token", req) \cap Sensitive(req) = {}]_vars

(***************************************************************************)
(* Properties of the login form.                                           *)
(***************************************************************************)
\* C18: a POST /authorize with wrong credentials creates no authorization
\* code, and its response is the login form rendered again with the generic
\* error and the submitted client_id, redirect_uri, scope, state,
\* code_challenge and resource; the response is the same for an unknown
\* username and for a known username with a wrong password: the step taken
\* for one failing pair of credentials is the step taken for any other.
C18_FailedLoginUniform ==
    [][\A form \in LoginForms, u \in LoginUsers, pw \in PasswordInputs :
          (/\ answer'.cause = "credentials"
           /\ ~CredentialsOK(u, pw)
           /\ handleAuthorizationPOST(u, pw, form.clientID,
                                      "https://claude.ai/api/mcp/auth_callback", "mcp",
                                      form.state, form.codeChallenge, form.resource)) =>
             /\ authCodes' = authCodes
             /\ answer'.page =
                   showAuthorizationPage(form.clientID,
                                         "https://claude.ai/api/mcp/auth_callback", "code",
                                         "mcp", form.state, form.codeChallenge, form.resource,
                                         "Invalid username or password. Please try again.")
             /\ \A u2 \in LoginUsers, pw2 \in PasswordInputs :
                   ~CredentialsOK(u2, pw2) =>
                      handleAuthorizationPOST(u2, pw2, form.clientID,
                                              "https://claude.ai/api/mcp/auth_callback",
                                              "mcp", form.state, form.codeChallenge,
                                              form.resource)]_vars

\* a login with wrong credentials has been answered with the form, its state
\* and challenge echoed, while a code of an earlier login is outstanding
C18_Witness ==
    /\ answer.grant = "login"
    /\ answer.cause = "credentials"
    /\ answer.page.State = "st1"
    /\ answer.page.CodeChallenge = "h1"
    /\ DOMAIN authCodes # {}

(***************************************************************************)
(* Properties of the maps.                                                 *)
(***************************************************************************)
\* C19: the set of registered clients only grows.  Every step of a handler
\* leaves each entry of clients present and unchanged, and a step that adds
\* an entry adds exactly one and is the step of a registration request that
\* has passed its checks and goes on to save and to answer 201.
C19_ClientsOnlyGrow ==
    [][/\ \A c \in DOMAIN clients : c \in DOMAIN clients' /\ clients'[c] = clients[c]
       /\ clients' # clients =>
             /\ Cardinality(DOMAIN clients') = Cardinality(DOMAIN clients) + 1
             /\ \E g \in Running' :
                   /\ g.cont = "register"
                   /\ g.pc = "snap"
                   /\ g.reg.clientID \in DOMAIN clients' \ DOMAIN clients
                   /\ RegistrationError(g.reg.clientIP, g.reg.redirectURIs) = ""]_vars

\* a second client is registered and has been answered 201, and token
\* requests of the first client have run since the start
C19_Witness ==
    /\ answer.grant = "register"
    /\ answer.status = 201
    /\ answer.key \in DOMAIN clients
    /\ "c0" \in DOMAIN clients
    /\ DOMAIN minted # {}

\* C20: with fresh random strings, each entry of accessTokens is keyed by its
\* own Token and no two entries share a Token or a RefreshToken, so a refresh
\* token identifies at most one stored pair.
C20_PairsUnique ==
    /\ \A k \in DOMAIN accessTokens : accessTokens[k].Token = k
    /\ \A k1, k2 \in DOMAIN accessTokens :
          k1 # k2 => /\ accessTokens[k1].Token # accessTokens[k2].Token
                     /\ accessTokens[k1].RefreshToken # accessTokens[k2].RefreshToken
    /\ \A k \in DOMAIN accessTokens :
          Cardinality(Stored(accessTokens[k].RefreshToken)) = 1

\* two pairs are stored, one minted from a code and one from a refresh token
C20_Witness ==
    /\ \E k \in DOMAIN accessTokens : k \in DOMAIN minted /\ minted[k].parent # ""
    /\ \E k \in DOMAIN accessTokens : k \in DOMAIN minted /\ minted[k].code # ""

\* the set of the instructions of a program
Instructions(program) == {program[n] : n \in 1..Len(program)}

\* goroutine g has called os.WriteFile and the call has not returned
Writing(g) == Instr(g) = "written"

\* C21 as stated: while a file write is in progress no goroutine holds the
\* lock, shared or exclusive, and ValidateToken's call path writes no file.
C21_NoLockDuringAnyWrite ==
    /\ (\E g \in Running : Writing(g)) => \A h \in Running : h.held = ""
    /\ "WriteFile" \notin Instructions(Program("ValidateToken"))

\* C21: a goroutine that calls os.WriteFile, or is inside the call, holds no
\* lock itself, so a file write never keeps another goroutine from the lock;
\* and ValidateToken's call path writes no file.
C21_WriterHoldsNoLock ==
    /\ \A g \in Running : Instr(g) \in {"WriteFile", "written"} => g.held = "" /\ g.wait = ""
    /\ "WriteFile" \notin Instructions(Program("ValidateToken"))

\* a file write is in progress while ValidateToken holds the shared lock
C21_Witness ==
    /\ \E g \in Running : Writing(g)
    /\ \E h \in Running : Instr(h) = "lookup" /\ h.held = "R"

\* a goroutine runs in slot i
Busy(i) == \E g \in Running : g.id = i

\* C22: the lock protocol has no deadlock (while goroutines run, one of them
\* can take a step), and under fair scheduling every invocation of an
\* operation and every cleanup goroutine eventually completes.
C22_EveryOperationCompletes ==
    /\ [](procs # EmptyBag => \E i \in Slots : ENABLED Run(i))
    /\ \A i \in Slots : Busy(i) ~> ~Busy(i)

\* the cleanup goroutine waits for the exclusive lock while ValidateToken still
\* holds the shared lock, and a saveClients waits for the shared lock
C22_Witness ==
    /\ \E g, h \in Running : /\ h.todo = <<"RUnlock">>
                              /\ h.held = "R"
                              /\ g.id = Cleaner(h.id)
                              /\ Instr(g) = "Lock"
                              /\ g.wait = "W"
    /\ \E k \in Running : Instr(k) = "RLock" /\ k.wait = "R" /\ Head(Tail(k.todo)) = "copy"

\* the step is a call of Next
IsNext == rotation'.nexts = rotation.nexts + 1

\* C23: the k-th Next call (k = 0, 1, ...) of a round-robin rotator over n > 0
\* tokens returns (tokens[k mod n], k mod n) whatever Fail and Success calls
\* come between, so after m*n Next calls every index has been returned m
\* times; over an empty list every Next returns ErrNoTokens.
C23_RoundRobinOrder ==
    /\ [][IsNext /\ rotator.mode = "round-robin" =>
            IF Len(rotator.tokens) = 0
            THEN rotation'.out = [NoResult EXCEPT !.err = "ErrNoTokens"]
            ELSE rotation'.out =
                    [NoResult EXCEPT
                        !.token = rotator.tokens[(rotation.nexts % Len(rotator.tokens)) + 1],
                        !.idx = rotation.nexts % Len(rotator.tokens)]]_vars
    /\ [](rotator.mode = "round-robin" /\ Len(rotator.tokens) > 0
              /\ rotation.nexts % Len(rotator.tokens) = 0
            => \A i \in 1..Len(rotator.tokens) :
                  rotation.returned[i] = rotation.nexts \div Len(rotator.tokens))

\* a round-robin rotator over two tokens has answered four Next calls, with a
\* Fail for one of its tokens between them
C23_Witness ==
    /\ rotator.mode = "round-robin"
    /\ Len(rotator.tokens) = 2
    /\ rotation.nexts = 4
    /\ rotation.recorded # <<>>
    /\ rotation.last = "Next"
    /\ rotation.returned = <<2, 2>>

\* a round-robin rotator over an empty list has answered ErrNoTokens
C23_WitnessEmpty ==
    /\ rotator.mode = "round-robin"
    /\ rotator.tokens = <<>>
    /\ rotation.out.err = "ErrNoTokens"

\* the first index after i, in cyclic order, whose failure count is zero
NextZero(r, i) ==
    LET n == Len(r.tokens)
        d == CHOOSE d \in 1..n : /\ r.fails[((i + d) % n) + 1] = 0
                                 /\ \A e \in 1..(d - 1) : r.fails[((i + e) % n) + 1] # 0
    IN  (i + d) % n

C25_ExhaustionError ==
    /\ [][IsNext /\ rotator.mode = "on-first-failed" =>
            IF Len(rotator.tokens) = 0
            THEN rotation'.out.err = "ErrNoTokens"
            ELSE /\ rotation'.out.err \in {"", "TokenExhaustedError"}
                 /\ rotation'.out.err = "TokenExhaustedError"
                       <=> \A i \in 1..Len(rotator.tokens) : rotator.fails[i] # 0
                 /\ rotation'.out.err = "TokenExhaustedError" =>
                       /\ Unwrap(rotation'.out.err) = "ErrAllTokensFailed"
                       /\ rotation'.out.token = ""
                       /\ rotation'.out.Attempts = rotation.granted
                       /\ rotation'.out.Statuses = rotation.recorded
                       /\ rotator'.attempts = rotator.attempts
                       /\ rotation'.granted = rotation.granted]_vars
    /\ [](rotator.mode = "on-first-failed" /\ Len(rotator.tokens) > 0 =>
            /\ rotator.attempts = rotation.granted
            /\ rotator.statuses = rotation.recorded)

\* both tokens have failed, with 401 and with 403, and the third Next has
\* returned the error with two attempts and the two statuses; one more call,
\* a Success or a Fail with an index out of range, has been made
C25_Witness ==
    /\ rotator.mode = "on-first-failed"
    /\ Len(rotator.tokens) = 2
    /\ rotation.calls = 6
    /\ rotation.nexts = 3
    /\ rotation.last = "Next"
    /\ rotation.out.err = "TokenExhaustedError"
    /\ rotation.out.Attempts = 2
    /\ rotation.out.Statuses = <<401, 403>>
    /\ rotator.fails = <<1, 1>>

\* the step is a call of Success, of Fail
IsSuccess == rotation'.calls = rotation.calls + 1 /\ rotation'.last = "Success"
IsFail == rotation'.calls = rotation.calls + 1 /\ rotation'.last = "Fail"

\* C26: Success(idx) of an on-first-failed rotator with idx in range sets the
\* failure count of idx to zero and changes nothing else, the current index
\* included, so that Next returns a token again, and returns this one when it
\* is the current one; Success and Fail with idx out of range change nothing.
C26_SuccessResets ==
    /\ [][IsSuccess /\ rotator.mode = "on-first-failed" =>
            IF InRange(rotation'.arg)
            THEN /\ rotator' = [rotator EXCEPT !.fails[rotation'.arg + 1] = 0]
                 /\ rotator'.idx = rotator.idx
                 /\ rotatorNext(rotator').out.err = ""
                 /\ rotator.idx = rotation'.arg =>
                       rotatorNext(rotator').out.idx = rotation'.arg
            ELSE rotator' = rotator]_vars
    /\ [][IsFail /\ rotator.mode = "on-first-failed" /\ ~InRange(rotation'.arg)
            => rotator' = rotator]_vars

\* every token had failed and Next had returned the error; Success for a token
\* other than the current one has set its count to zero
C26_Witness ==
    /\ rotator.mode = "on-first-failed"
    /\ rotation.last = "Success"
    /\ InRange(rotation.arg)
    /\ rotation.lastNext.err = "TokenExhaustedError"
    /\ ~rotation.failed
    /\ rotator.fails[rotation.arg + 1] = 0
    /\ rotator.idx # rotation.arg
    /\ \A i \in 1..Len(rotator.fails) : i # rotation.arg + 1 => rotator.fails[i] # 0

\* the tracing middlewares among the arguments of chainMiddleware, in order
Tracers == SelectSeq(chain.middlewares, LAMBDA mw : mw.kind = "trace")

\* C27: in chainMiddleware(h, m1, ..., mn) the last middleware mn is the
\* outermost and runs first, m1 is the innermost and runs last before h, and
\* after h the middlewares finish in the reverse order, m1 first and mn last;
\* without middlewares the chained handler is h itself.
C27_ChainOrder ==
    /\ chain.phase = "done" /\ chain.status = 200 =>
          chain.callOrder =
              [i \in 1..Len(Tracers) |-> Tracers[Len(Tracers) + 1 - i].name \o "-before"]
                  \o <<"handler">>
                  \o [i \in 1..Len(Tracers) |-> Tracers[i].name \o "-after"]
    /\ chain.middlewares = <<>> => chain.handler = <<>>
    /\ chain.phase = "done" /\ chain.handler = <<>> => chain.callOrder = <<"handler">>

\* chainMiddleware(handler, m1, m2, m3) has served a request
C27_Witness ==
    /\ chain.middlewares = <<Tracer("m1"), Tracer("m2"), Tracer("m3")>>
    /\ chain.phase = "done"
    /\ chain.callOrder = <<"m3-before", "m2-before", "m1-before", "handler", "m1-after",
                           "m2-after", "m3-after">>

\* the header, after a leading "Bearer " is removed, is token t between blanks
Carries(header, t) ==
    LET body == IF header # <<>> /\ header[1] = "Bearer " THEN Tail(header) ELSE header
    IN  \E i, j \in 0..Len(body) :
           /\ i + j < Len(body)
           /\ \A k \in 1..i : body[k] = " "
           /\ \A k \in (Len(body) - j + 1)..Len(body) : body[k] = " "
           /\ body[i + 1] # " "
           /\ body[Len(body) - j] # " "
           /\ Flatten(SubSeq(body, i + 1, Len(body) - j)) = t

\* the request passes the auth middleware made for the tokens
Passes(tokens, header) ==
    tokens = <<>> \/ \E n \in 1..Len(tokens) : tokens[n] # "" /\ Carries(header, tokens[n])

\* C28: a middleware of newAuthMiddleware with an empty token list passes
\* every request; with tokens it passes a request exactly when the
\* Authorization header, with a leading "Bearer " removed and the blanks around
\* it trimmed, is not empty and is one of the tokens, and answers 401
\* otherwise, without calling the handler.
C28_AuthMiddleware ==
    chain.phase = "done" =>
        LET auths == SelectSeq(chain.middlewares, LAMBDA mw : mw.kind = "auth")
            passes == \A n \in 1..Len(auths) : Passes(auths[n].tokens, chain.header)
            handled == \E n \in 1..Len(chain.callOrder) : chain.callOrder[n] = "handler"
        IN  /\ passes => chain.status = 200 /\ handled
            /\ ~passes => chain.status = 401 /\ ~handled

\* a request whose header holds a token between blanks has passed the
\* middleware
C28_Witness ==
    /\ chain.middlewares = <<newAuthMiddleware(<<"static1", "static2">>)>>
    /\ chain.header = <<"Bearer ", " ", "static1", " ">>
    /\ chain.phase = "done"
    /\ chain.status = 200

\* a request with the scheme in lower case has been answered 401
C28_WitnessRefused ==
    /\ chain.middlewares = <<newAuthMiddleware(<<"static1", "static2">>)>>
    /\ chain.header = <<"bearer ", "static1">>
    /\ chain.phase = "done"
    /\ chain.status = 401
    /\ chain.callOrder = <<>>

\* C29: for a username that is not empty, IsUserAllowed of a filter in allow
\* mode is true exactly for the users of the list (for none when the list is
\* empty), of a filter in block mode exactly for the users not in the list
\* (for all when it is empty), and it is true for a nil filter and for a mode
\* that is not set or not known.
C29_UserFilter ==
    allowed.called /\ allowed.username # "" =>
        /\ allowed.ufc.nil => allowed.result
        /\ ~allowed.ufc.nil /\ allowed.ufc.Mode = "allow" =>
              /\ allowed.result <=> allowed.username \in Range(allowed.ufc.List)
              /\ allowed.ufc.List = <<>> => ~allowed.result
        /\ ~allowed.ufc.nil /\ allowed.ufc.Mode = "block" =>
              /\ allowed.result <=> allowed.username \notin Range(allowed.ufc.List)
              /\ allowed.ufc.List = <<>> => allowed.result
        /\ ~allowed.ufc.nil /\ allowed.ufc.Mode \notin {"allow", "block"} => allowed.result

\* a user who is not in the list has asked a filter whose mode is not known,
\* and is allowed
C29_Witness ==
    /\ allowed.called
    /\ allowed.ufc = [nil |-> FALSE, Mode |-> "deny", List |-> <<"alice">>]
    /\ allowed.username = "bob"
    /\ allowed.result

\* a user of the list has been refused by a filter in block mode
C29_WitnessBlocked ==
    /\ allowed.called
    /\ allowed.ufc = [nil |-> FALSE, Mode |-> "block", List |-> <<"alice", "bob">>]
    /\ allowed.username = "bob"
    /\ ~allowed.result

\* the template directory holds pages that parse
Working(dir) == dir \notin {"absent", "broken", ""}

\* C30: a server that started with external templates checks them again at
\* every page request: the page is rendered from the files as they are at the
\* request when they parse, from an earlier successful parse when they do not,
\* and the request is answered in either case.
C30_HotReload ==
    templates.page # "" /\ templates.parsed # "builtin" =>
        /\ templates.status = 200
        /\ Working(templates.seen) => templates.from = templates.seen
        /\ ~Working(templates.seen) => Working(templates.from)

\* the templates were edited after the start and a page has been requested
C30_Edited ==
    /\ templates.page = "authorize.html"
    /\ templates.parsed = "v1"
    /\ templates.seen = "v2"

(***************************************************************************)
(* Frame conditions of the token and authorization endpoints.              *)
(***************************************************************************)
\* the error a token request is refused with before the code is looked up,
\* "" for a request that reaches the lookup
RefusedEarly(grantType, req) ==
    IF grantType \notin {"authorization_code", "refresh_token"} THEN "unsupported_grant_type"
    ELSE IF "" \in {req.code, req.redirectURI, req.clientID} THEN "invalid_request"
    ELSE IF req.clientID \notin DOMAIN clients THEN "invalid_client"
    ELSE ""

\* C31: a token request rejected before the code lookup (unsupported_grant_type,
\* invalid_request for an empty code, redirect_uri or client_id, invalid_client
\* for an unregistered client) is answered with that error and leaves authCodes
\* and accessTokens as they were, so that the code it names is still stored;
\* every request that reaches the lookup leaves the code it names out of
\* authCodes, whether it is then refused (expired, mismatch, PKCE) or passes.
C31_RejectionKeepsCode ==
    [][(accessTokens' = accessTokens /\ issued' = issued /\ now' = now) =>
          \A req \in GrantRequests, grantType \in {"authorization_code", "password"} :
             (/\ grantType = "password" => req.codeVerifier = "v1"
              /\ handleToken(1, "application/x-www-form-urlencoded", grantType, req)) =>
                IF RefusedEarly(grantType, req) # ""
                THEN /\ answer'.error = RefusedEarly(grantType, req)
                     /\ ~answer'.reached
                     /\ authCodes' = authCodes
                     /\ accessTokens' = accessTokens
                ELSE /\ req.code \notin DOMAIN authCodes'
                     /\ \A c \in DOMAIN authCodes \ {req.code} :
                           c \in DOMAIN authCodes' /\ authCodes'[c] = authCodes[c]]_vars

\* a token request for an unregistered client has been refused while a code
\* is outstanding, after an exchange of another code has been refused at the
\* checks that follow the lookup and has left that code consumed
C31_Witness ==
    /\ answer.error = "invalid_client"
    /\ ~answer.reached
    /\ DOMAIN authCodes # {}
    /\ \E code \in DOMAIN issued : code \notin DOMAIN authCodes /\ MintedFrom(code) = {}

\* C32: GET /authorize answers invalid_request (400) exactly when client_id is
\* empty, redirect_uri is empty or response_type is not "code"; every other
\* request is answered 200 with the login form for the values of the query,
\* whether or not client_id names a registered client; and no request changes
\* the clients, the codes, the tokens or the file, or starts a goroutine.
C32_AuthorizeGET ==
    [][\A q \in AuthorizeQueries :
          handleAuthorizationGET(q.clientID, q.redirectURI, q.responseType, "mcp", q.state,
                                 q.codeChallenge, q.resource) =>
             /\ (answer'.error = "invalid_request" /\ answer'.status = 400)
                   <=> (q.clientID = "" \/ q.redirectURI = "" \/ q.responseType # "code")
             /\ ~(q.clientID = "" \/ q.redirectURI = "" \/ q.responseType # "code") =>
                   /\ answer'.error = ""
                   /\ answer'.status = 200
                   /\ answer'.page.ClientID = q.clientID
                   /\ answer'.page.RedirectURI = q.redirectURI
                   /\ answer'.page.State = q.state
                   /\ answer'.page.CodeChallenge = q.codeChallenge
                   /\ answer'.page.Resource = q.resource
                   /\ answer'.page.ErrorMessage = ""
             /\ UNCHANGED <<clients, authCodes, accessTokens, file, procs>>]_vars

\* the login form has been rendered for a client_id that is not registered,
\* while a code and a token pair of the registered client are stored
C32_Witness ==
    /\ answer.grant = "authorize"
    /\ answer.status = 200
    /\ answer.page.ClientID \notin DOMAIN clients
    /\ DOMAIN authCodes # {}
    /\ DOMAIN accessTokens # {}

(***************************************************************************)
(* Lazy expiry.                                                            *)
(***************************************************************************)
\* ValidateToken has found the stored entry of t expired: the cleanup
\* goroutine it started has still to delete the entry
Observed(t) == \E g \in Running : g.pc = "cdel" /\ g.req.tokenString = t

\* the entries a step takes out of accessTokens that had expired
ExpiredRemoved ==
    {t \in DOMAIN accessTokens \ DOMAIN accessTokens' : Expired(now, accessTokens[t].ExpiresAt)}

\* under fair scheduling, an entry ValidateToken has found expired is
\* eventually out of the map and out of the persisted file
EventuallyCleaned ==
    \A t \in TokenNames :
        Observed(t) ~> (t \notin DOMAIN accessTokens /\ t \notin DOMAIN file.accessTokens)

\* C33 as stated: an entry ValidateToken has found expired is eventually
\* removed from the map and a snapshot without it is eventually written, and a
\* stored expired entry that no ValidateToken has observed is never removed.
C33_RemovedOnlyWhenValidated ==
    /\ EventuallyCleaned
    /\ [][\A t \in ExpiredRemoved : Observed(t)]_vars

\* C33, amended: an entry ValidateToken has found expired is eventually removed
\* from the map and a snapshot without it is eventually written, and a stored
\* expired entry that no ValidateToken has observed is removed only by a
\* refresh request that presents its refresh token.
C33_LazyExpiry ==
    /\ EventuallyCleaned
    /\ [][\A t \in ExpiredRemoved :
             Observed(t) \/ accessTokens[t].RefreshToken \in consumed' \ consumed]_vars

\* the persisted pair has expired, no refresh has taken it, and it is gone
\* from the map and from the file: the cleanup goroutine has deleted it and
\* written its snapshot
C33_Witness ==
    /\ now > NewToken(0, "c0", "mcp", "resA", 0).ExpiresAt
    /\ NewToken(0, "c0", "mcp", "resA", 0).RefreshToken \notin consumed
    /\ "at0" \notin DOMAIN accessTokens
    /\ "at0" \notin DOMAIN file.accessTokens

(***************************************************************************)
(* What a code and a pair are bound to.                                    *)
(***************************************************************************)
\* the redirect URI is one of those registered for the client
RegisteredRedirect(clientID, redirectURI) ==
    /\ clientID \in DOMAIN clients
    /\ redirectURI \in Range(clients[clientID].RedirectURIs)

\* C34: every authorization code issued by POST /authorize, and every pair
\* minted from a code, is bound to a redirect URI registered for the code's
\* client, and the success page redirects the code to such a URI only.
C34_RedirectRegistered ==
    /\ \A code \in DOMAIN issued :
          RegisteredRedirect(issued[code].authCode.ClientID, issued[code].authCode.RedirectURI)
    /\ \A t \in DOMAIN minted :
          minted[t].code # "" =>
             RegisteredRedirect(issued[minted[t].code].authCode.ClientID,
                                issued[minted[t].code].authCode.RedirectURI)
    /\ (answer.grant = "login" /\ answer.cause = "") =>
          \E code \in DOMAIN issued :
             /\ answer.page.RedirectURL.code = code
             /\ RegisteredRedirect(issued[code].authCode.ClientID, answer.page.RedirectURL.uri)

\* the pair a refresh token was minted with: the persisted pair or a pair
\* minted since
PairOf(refreshToken) ==
    {minted[t].token : t \in {k \in DOMAIN minted : minted[k].token.RefreshToken = refreshToken}}
        \cup {p \in {NewToken(0, "c0", "mcp", "resA", 0)} : p.RefreshToken = refreshToken}

\* C35: a pair minted from a code carries the scope and the resource recorded
\* in the code at login, whatever resource the token request sends, and a
\* pair minted by a refresh carries the scope and the resource of the pair it
\* replaces.
C35_TokenCarriesCodeResource ==
    \A t \in DOMAIN minted :
        /\ minted[t].code # "" =>
              /\ minted[t].token.Scope = issued[minted[t].code].authCode.Scope
              /\ minted[t].token.Resource = issued[minted[t].code].authCode.Resource
        /\ minted[t].parent # "" =>
              \A old \in PairOf(minted[t].parent) :
                 /\ minted[t].token.Scope = old.Scope
                 /\ minted[t].token.Resource = old.Resource

\* C36: the delete of a cleanup goroutine takes out of accessTokens at most
\* the entry of its own token, and only an entry whose ExpiresAt has passed;
\* every other entry, the pairs minted by concurrent exchanges and refreshes
\* included, stays as it is; and when the entry is gone already (a second
\* cleanup for the same token, or a refresh that took the pair) the delete
\* changes nothing.
C36_CleanupRemovesOnlyExpired ==
    [][\A g \in Running :
          (g.pc = "cdel" /\ cleanup_delete(g)) =>
             /\ \A t \in DOMAIN accessTokens \ DOMAIN accessTokens' :
                   /\ t = g.req.tokenString
                   /\ Expired(now, accessTokens[t].ExpiresAt)
             /\ \A t \in DOMAIN accessTokens' :
                   t \in DOMAIN accessTokens /\ accessTokens'[t] = accessTokens[t]
             /\ g.req.tokenString \notin DOMAIN accessTokens => accessTokens' = accessTokens]_vars

\* a pair has expired and ValidateToken has started its cleanup; a refresh
\* has replaced the pair meanwhile; the cleanup has run its delete, and the
\* new pair, which has not expired, is still stored
C36_Witness ==
    \E t \in DOMAIN minted, g \in Running :
        /\ g.req.tokenString = t
        /\ g.cont = "end"
        /\ t \notin DOMAIN accessTokens
        /\ \E t2 \in DOMAIN accessTokens :
              /\ t2 \in DOMAIN minted
              /\ minted[t2].parent = minted[t].token.RefreshToken
              /\ ~Expired(now, accessTokens[t2].ExpiresAt)

(***************************************************************************)
(* Refresh rotation.                                                       *)
(***************************************************************************)
\* the refresh requests that have taken a pair of their own client out of
\* the map: nothing stands between them and the 200 answer
Rotating == {g \in Running : g.old # NoToken /\ g.old.ClientID = g.req.clientID}

\* the pairs minted in place of the pair that carried refreshToken
Replacement(refreshToken) == {t \in DOMAIN minted : minted[t].parent = refreshToken}

\* C37: refresh rotation is atomic for every observer.  In no reachable state
\* has the old pair of a refresh that goes on to succeed left the map while
\* its replacement is not in the map, and in no reachable state does the file
\* hold a snapshot without the old pair and without its replacement.
C37_RotationAtomic ==
    \A g \in Rotating :
        /\ g.old.Token \notin DOMAIN accessTokens =>
              Replacement(g.old.RefreshToken) \cap DOMAIN accessTokens # {}
        /\ g.old.Token \notin DOMAIN file.accessTokens =>
              Replacement(g.old.RefreshToken) \cap DOMAIN file.accessTokens # {}

\* the pairs the server has handed out: the pairs it loaded from the file
\* and the pairs minted since
HandedOut == Range(loaded.AccessTokens) \cup {minted[t].token : t \in DOMAIN minted}

\* a refresh request of the pair's client that presents its refresh token
\* finds the pair: it passes the lookup and the check of the client
Redeemable(pair) ==
    \E k \in Matching(accessTokens, pair.RefreshToken) :
        accessTokens[k].ClientID = pair.ClientID

\* C38: the refresh token of a pair handed out to a registered client, as
\* long as no refresh request has used it, stays redeemable after the access
\* token of the pair has expired, whether or not ValidateToken has been
\* called on the expired access token and whether or not the server has been
\* restarted from its snapshot.
C38_RefreshSurvivesExpiry ==
    \A pair \in HandedOut :
        (/\ pair.ClientID \in DOMAIN clients
         /\ pair.RefreshToken \notin consumed
         /\ Expired(now, pair.ExpiresAt)) => Redeemable(pair)

\* C39: for a rotator built over n >= 1 tokens, after any interleaving of Next,
\* Fail and Success calls with any idx arguments, the current index is at
\* least 0 and below n, the failure counts are n numbers none of which is
\* negative, and a Next of the on-first-failed rotator never returns a token
\* whose failure count is not zero
C39_RotatorState ==
    Len(rotator.tokens) >= 1 =>
        /\ rotator.idx >= 0 /\ rotator.idx < Len(rotator.tokens)
        /\ Len(rotator.fails) = Len(rotator.tokens)
        /\ \A i \in 1..Len(rotator.fails) : rotator.fails[i] >= 0
        /\ (rotator.mode = "on-first-failed" /\ rotation.last = "Next"
                /\ rotation.out.err = "")
               => /\ rotator.fails[rotation.out.idx + 1] = 0
                  /\ rotation.out.token = rotator.tokens[rotation.out.idx + 1]

\* Fail calls for indices other than the current one have moved the index to
\* the last of three tokens, and Next wrapped around the failed tokens to the
\* first one
C39_Witness ==
    /\ rotator.mode = "on-first-failed"
    /\ Len(rotator.tokens) = 3
    /\ rotation.last = "Next"
    /\ rotation.out.err = ""
    /\ rotation.out.idx = 0
    /\ rotator.fails[2] > 0
    /\ rotator.fails[3] > 0

\* the last Next returned a TokenExhaustedError
LastNextExhausted == rotation.lastNext.err = "TokenExhaustedError"

\* C40 as stated: when Fail and Success are called only with an index that a
\* Next has returned, then once a Next has returned TokenExhaustedError every
\* later Next returns it too
C40_ExhaustionAbsorbing == [][LastNextExhausted => LastNextExhausted']_vars

\* C40: when Fail and Success are called only with an index that a Next has
\* returned, then once a Next has returned TokenExhaustedError the following
\* Next returns it too unless a Success was called in between
C40_ExhaustedUntilSuccess ==
    [][(LastNextExhausted /\ ~rotation.succeeded) => LastNextExhausted']_vars

\* both tokens have failed and two calls of Next have returned the error
C40_Witness ==
    /\ Len(rotator.tokens) = 2
    /\ rotation.last = "Next"
    /\ rotation.out.err = "TokenExhaustedError"
    /\ rotation.nexts - rotation.granted >= 2

====
